---- MODULE Spec2Model ----
(***************************************************************************)
(* Verification model of the a11y-reviewer rule-evaluation engine:         *)
(*   - src/core/hybrid-analyzer.js  (dispatcher, ESLint jsx-a11y delegate) *)
(*   - src/core/html-analyzer.js    (markup evaluator)                     *)
(*   - src/mcp-server.js            (check_accessibility, batch, fixes)    *)
(*   - src/analyze-pr-mcp.js        (PR analysis loop)                     *)
(*                                                                         *)
(* Text model.  A file content is a JavaScript value: a string, or a       *)
(* non-string (undefined, a number) that a JSON client may supply.  A      *)
(* string is a sequence of lines (content.split('\n')), a line a sequence  *)
(* of tokens.  A token is an HTML open tag with its attributes, an HTML    *)
(* close tag, a piece of text (also a script token such as import, return, *)
(* =>), or a construct on which an evaluator whose code is not part of the *)
(* model (the third-party ESLint engine, the stylesheet, script and regex  *)
(* analyzers) reports a finding.                                           *)
(***************************************************************************)
EXTENDS Integers, Sequences, FiniteSets, TLC

(***************************************************************************)
(* Tokens                                                                  *)
(***************************************************************************)
NoAttrs == [a \in {} |-> ""]

\* An attribute written without a value (<video muted>); htmlparser2 reports
\* it with the empty string as its value.
Bare == "#bare"

Open(name, attrs) == [t |-> "open", name |-> name, attrs |-> attrs, data |-> "", sev |-> ""]
Close(name)       == [t |-> "close", name |-> name, attrs |-> NoAttrs, data |-> "", sev |-> ""]
Text(data)        == [t |-> "text", name |-> "", attrs |-> NoAttrs, data |-> data, sev |-> ""]
\* A construct in the text on which engine `eng` reports rule `rule` with
\* severity `sev`.
Finding(eng, rule, sev) == [t |-> "finding", name |-> eng, attrs |-> NoAttrs, data |-> rule, sev |-> sev]

Str(lines)  == [kind |-> "string", lines |-> lines]
Undefined   == [kind |-> "undefined", lines |-> << <<>> >>]
NumberValue == [kind |-> "number", lines |-> << <<>> >>]

IsString(content) == content.kind = "string"
\* JavaScript truthiness of a content value: undefined and '' are falsy.
Truthy(content) ==
  CASE content.kind = "undefined" -> FALSE
    [] content.kind = "number"    -> TRUE
    [] OTHER                      -> content.lines # << <<>> >>

\* The sum of a sequence of naturals.
SumSeq(s) == Cardinality(UNION {{<<i, w>> : w \in 1..s[i]} : i \in 1..Len(s)})

\* [1, 2, ..., n]
Indices(n) == [i \in 1..n |-> i]

\* The concatenation of a sequence of sequences (Array.prototype.push of
\* each in turn).
Concat(ss) ==
  LET pick(before) ==
        [p \in 1..before[Len(ss) + 1] |->
           LET at(i) == ss[i][p - before[i]]
           IN at(CHOOSE i \in 1..Len(ss) : before[i] < p /\ p <= before[i] + Len(ss[i]))]
  IN pick([i \in 1..(Len(ss) + 1) |-> SumSeq([q \in 1..(i - 1) |-> Len(ss[q])])])

\* Number of characters of a token's text.  Strings are atoms here, so a tag
\* counts two characters for '<x' plus two per attribute plus '>', a close
\* tag three, any other token one.
Width(tok) ==
  CASE tok.t = "open"  -> 3 + 2 * Cardinality(DOMAIN tok.attrs)
    [] tok.t = "close" -> 3
    [] OTHER           -> 1

LineLength(line) == SumSeq([k \in 1..Len(line) |-> Width(line[k])])

(***************************************************************************)
(* Paths.  A path is a sequence of chunks: "/" , "." or a run of other     *)
(* characters.                                                             *)
(***************************************************************************)
\* String.prototype.toLowerCase on the atoms the model uses.
Lower(s) ==
  CASE s = "HTML"      -> "html"
    [] s = "JSX"       -> "jsx"
    [] s = "INDEX"     -> "index"
    [] s = "Import"    -> "import"
    [] s = "From"      -> "from"
    [] s = "\"React\"" -> "\"react\""
    [] s = "HTML5"     -> "html5"
    [] s = "IMG"       -> "img"
    [] s = "H1"        -> "h1"
    [] s = "Main"      -> "main"
    [] s = "App"       -> "app"
    [] s = "Click Here" -> "click here"
    [] s = "Here"      -> "here"
    [] s = "E-Mail"    -> "e-mail"
    [] s = "Image of logo" -> "image of logo"
    [] OTHER           -> s

toLowerCase(chunks) == [k \in 1..Len(chunks) |-> Lower(chunks[k])]

\* Node's path.extname (posix), the loop from the end of the path.
RECURSIVE extnameScan(_, _, _)
extnameScan(path, i, st) ==
  IF i = 0 THEN st
  ELSE IF path[i] = "/"
       THEN IF ~st.matchedSlash
            THEN [st EXCEPT !.startPart = i + 1]
            ELSE extnameScan(path, i - 1, st)
       ELSE LET s1 == IF st.end = -1
                      THEN [st EXCEPT !.matchedSlash = FALSE, !.end = i + 1]
                      ELSE st
                s2 == IF path[i] = "."
                      THEN IF s1.startDot = -1 THEN [s1 EXCEPT !.startDot = i]
                           ELSE IF s1.preDotState # 1 THEN [s1 EXCEPT !.preDotState = 1]
                           ELSE s1
                      ELSE IF s1.startDot # -1 THEN [s1 EXCEPT !.preDotState = -1]
                      ELSE s1
            IN extnameScan(path, i - 1, s2)

extname(path) ==
  LET st == extnameScan(path, Len(path),
              [startDot |-> -1, startPart |-> 1, end |-> -1,
               matchedSlash |-> TRUE, preDotState |-> 0])
  IN IF \/ st.startDot = -1
        \/ st.end = -1
        \/ st.preDotState = 0
        \/ (st.preDotState = 1 /\ st.startDot = st.end - 1 /\ st.startDot = st.startPart + 1)
     THEN <<>>
     ELSE SubSeq(path, st.startDot, st.end - 1)

Ext(word) == <<".", word>>

(***************************************************************************)
(* Regular expressions over the token stream of a content.                 *)
(***************************************************************************)
NL == Text("\n")

RECURSIVE Flatten(_)
\* The characters of the content in order: the lines joined by newlines.
Flatten(lines) ==
  IF Len(lines) = 0 THEN <<>>
  ELSE IF Len(lines) = 1 THEN lines[1]
  ELSE lines[1] \o <<NL>> \o Flatten(Tail(lines))

\* Tag names that begin with a capital letter.
StartsUpper(name) == name \in {"App", "Main", "IMG", "H1", "HTML5"}

\* Membership of a token in a character class of the dispatcher's regexes.
Is(cls, tok) ==
  CASE cls = "import"  -> tok.t = "text" /\ Lower(tok.data) = "import"
    [] cls = "from"    -> tok.t = "text" /\ Lower(tok.data) = "from"
    [] cls = "react"   -> tok.t = "text" /\ Lower(tok.data) \in {"'react'", "\"react\""}
    [] cls = "ws"      -> tok.t = "text" /\ tok.data \in {" ", "\n"}
    [] cls = "any"     -> tok # NL
    [] cls = "return"  -> tok.t = "text" /\ tok.data = "return"
    [] cls = "lparen"  -> tok.t = "text" /\ tok.data = "("
    [] cls = "arrow"   -> tok.t = "text" /\ tok.data = "=>"
    [] cls = "ltUpper" -> tok.t = "open" /\ StartsUpper(tok.name)
    [] OTHER           -> FALSE

One(cls)  == [cls |-> cls, q |-> "1"]
Opt(cls)  == [cls |-> cls, q |-> "?"]
Star(cls) == [cls |-> cls, q |-> "*"]

RECURSIVE MatchFrom(_, _, _, _)
\* Backtracking match of re[k..] against a prefix of s[i..].
MatchFrom(re, k, s, i) ==
  IF k > Len(re) THEN TRUE
  ELSE LET step(here) ==
             CASE re[k].q = "1" -> here /\ MatchFrom(re, k + 1, s, i + 1)
               [] re[k].q = "?" -> (here /\ MatchFrom(re, k + 1, s, i + 1)) \/ MatchFrom(re, k + 1, s, i)
               [] OTHER         -> (here /\ MatchFrom(re, k, s, i + 1)) \/ MatchFrom(re, k + 1, s, i)
       IN step(i <= Len(s) /\ Is(re[k].cls, s[i]))

\* RegExp.prototype.test without the g flag: a match starting anywhere.
RegexTest(re, s) == \E i \in 1..(Len(s) + 1) : MatchFrom(re, 1, s, i)

\* /import\s+.*\s+from\s+['"]react['"]/i
ReactImportRe ==
  << One("import"), One("ws"), Star("ws"), Star("any"), One("ws"), Star("ws"),
     One("from"), One("ws"), Star("ws"), One("react") >>
\* /return\s*\(?\s*<[A-Z]/
ReturnJSXRe == << One("return"), Star("ws"), Opt("lparen"), Star("ws"), One("ltUpper") >>
\* /=>\s*<[A-Z]/
ArrowJSXRe == << One("arrow"), Star("ws"), One("ltUpper") >>

\* String(content) as RegExp.test coerces it: a non-string has no markers.
TestText(content) == IF IsString(content) THEN Flatten(content.lines) ELSE <<>>

\* A faulty hasJSXElement that forgets the arrow form; C4_Classification
\* must not hold of it.
onlyReturnJSX(content) == RegexTest(ReturnJSXRe, TestText(content))

hasReactImport(content) == RegexTest(ReactImportRe, TestText(content))
hasJSXElement(content) ==
  LET either(text) == RegexTest(ReturnJSXRe, text) \/ RegexTest(ArrowJSXRe, text)
  IN either(TestText(content))

(***************************************************************************)
(* Markup evaluator: src/core/html-analyzer.js                             *)
(***************************************************************************)
\* html-analyzer.js: violationToWCAG
violationToWCAG ==
  ("img-missing-alt" :> <<"1.1.1">>)
  @@ ("img-empty-alt-not-decorative" :> <<"1.1.1">>)
  @@ ("img-redundant-alt" :> <<"1.1.1">>)
  @@ ("form-input-missing-label" :> <<"3.3.2", "4.1.2">>)
  @@ ("button-empty" :> <<"4.1.2">>)
  @@ ("link-empty" :> <<"2.4.4">>)
  @@ ("link-non-descriptive" :> <<"2.4.4">>)
  @@ ("link-new-window-no-warning" :> <<"3.2.5">>)
  @@ ("iframe-missing-title" :> <<"4.1.2">>)
  @@ ("div-as-button" :> <<"4.1.2">>)
  @@ ("click-without-keyboard" :> <<"2.1.1">>)
  @@ ("positive-tabindex" :> <<"2.4.3">>)
  @@ ("missing-lang" :> <<"3.1.1">>)
  @@ ("missing-lang-foreign" :> <<"3.1.2">>)
  @@ ("heading-empty" :> <<"2.4.6">>)
  @@ ("heading-hierarchy" :> <<"2.4.6">>)
  @@ ("table-missing-headers" :> <<"1.3.1">>)
  @@ ("autoplay-media" :> <<"1.4.2", "2.2.2">>)
  @@ ("media-no-captions" :> <<"1.2.2", "1.2.3">>)
  @@ ("redundant-role" :> <<"4.1.2">>)
  @@ ("invalid-aria-role" :> <<"4.1.2">>)
  @@ ("missing-aria-required" :> <<"4.1.2">>)
  @@ ("focus-outline-removed" :> <<"2.4.7">>)
  @@ ("title-empty" :> <<"2.4.2">>)
  @@ ("duplicate-id" :> <<"4.1.1">>)
  @@ ("marquee-element" :> <<"2.2.2">>)
  @@ ("missing-main-landmark" :> <<"1.3.1">>)
  @@ ("placeholder-as-label" :> <<"3.3.2">>)
  @@ ("missing-autocomplete" :> <<"1.3.5">>)
  @@ ("non-semantic-navigation" :> <<"1.3.1">>)
  @@ ("radio-missing-fieldset" :> <<"1.3.1", "3.3.2">>)
  @@ ("required-not-indicated" :> <<"3.3.2">>)

\* A faulty remediation table that lost all entries but one;
\* C9_RemediationFromTables must not hold of it.
fixSuggestionsStub ==
  ("img-missing-alt" :> <<"Add alt attribute to image">>)

\* html-analyzer.js: fixSuggestions
fixSuggestions ==
  ("img-missing-alt" :> <<"Add alt attribute: <img src=\"logo.png\" alt=\"Company logo\">", "For decorative images: <img src=\"decoration.png\" alt=\"\">", "Describe the image content, not just \"image of...\"">>)
  @@ ("img-empty-alt-not-decorative" :> <<"If image is informative, add meaningful alt text", "If image is decorative, use alt=\"\" and role=\"presentation\"">>)
  @@ ("img-redundant-alt" :> <<"Remove words like \"image\", \"picture\", \"photo\" from alt text", "Focus on describing the content/purpose">>)
  @@ ("form-input-missing-label" :> <<"<label for=\"username\">Username</label><input id=\"username\" type=\"text\">", "Or use aria-label: <input type=\"text\" aria-label=\"Username\">", "Or aria-labelledby: <span id=\"label\">Username</span><input aria-labelledby=\"label\">">>)
  @@ ("button-empty" :> <<"Add text content: <button>Click me</button>", "Or aria-label: <button aria-label=\"Close dialog\">?</button>">>)
  @@ ("link-empty" :> <<"Add link text: <a href=\"/page\">Read more</a>", "Or aria-label: <a href=\"/page\" aria-label=\"Read more about accessibility\">?</a>">>)
  @@ ("iframe-missing-title" :> <<"Add title attribute: <iframe src=\"...\" title=\"Embedded video player\"></iframe>", "Title should describe the iframe content">>)
  @@ ("div-as-button" :> <<"Use <button> element: <button onclick=\"handler()\">Click me</button>", "Or add proper ARIA: <div role=\"button\" tabindex=\"0\" onkeydown=\"keyHandler()\">">>)
  @@ ("click-without-keyboard" :> <<"Add keyboard support: <div onclick=\"handler()\" onkeydown=\"keyHandler()\" tabindex=\"0\">", "Or use semantic element: <button onclick=\"handler()\">">>)
  @@ ("positive-tabindex" :> <<"Remove positive tabindex values", "Use tabindex=\"0\" for custom interactive elements", "Let natural tab order work for native elements">>)
  @@ ("missing-lang" :> <<"Add lang attribute to <html>: <html lang=\"en\">", "Use appropriate language code">>)
  @@ ("heading-empty" :> <<"Add text content: <h1>Page Title</h1>", "Or aria-label: <h1 aria-label=\"Section title\"><span class=\"icon\"></span></h1>">>)
  @@ ("table-missing-headers" :> <<"Use <thead> and <th>: <thead><tr><th>Name</th><th>Age</th></tr></thead>", "Add scope: <th scope=\"col\">Name</th>">>)
  @@ ("autoplay-media" :> <<"Remove autoplay: <video src=\"...\" controls></video>", "Or add muted for background: <video autoplay muted loop></video>">>)
  @@ ("redundant-role" :> <<"Remove redundant role that matches implicit semantics", "Example: <button role=\"button\"> should be just <button>">>)
  @@ ("invalid-aria-role" :> <<"Use valid ARIA role from specification", "Check: https://www.w3.org/TR/wai-aria/#role_definitions">>)
  @@ ("missing-aria-required" :> <<"Add required ARIA properties for this role", "Example: role=\"checkbox\" requires aria-checked">>)
  @@ ("focus-outline-removed" :> <<"Do not remove focus outlines globally", "Provide custom visible focus styles if removing default">>)
  @@ ("title-empty" :> <<"Add descriptive title: <title>Page Name - Site Name</title>", "Title should describe the page content">>)
  @@ ("duplicate-id" :> <<"Ensure all id attributes are unique", "Duplicate IDs break ARIA relationships and form labels">>)
  @@ ("marquee-element" :> <<"Do not use <marquee> or <blink> elements", "Use CSS animations with prefers-reduced-motion support">>)
  @@ ("media-no-captions" :> <<"Add <track> element for captions: <video><track kind=\"captions\" src=\"captions.vtt\"></video>", "Or provide transcript link below media">>)
  @@ ("link-new-window-no-warning" :> <<"Add warning text: <a href=\"...\" target=\"_blank\">Link (opens in new window)</a>", "Or use aria-label: <a href=\"...\" target=\"_blank\" aria-label=\"Link, opens in new window\">">>)
  @@ ("missing-main-landmark" :> <<"Add <main> element to wrap primary content", "There should be exactly one <main> per page">>)
  @@ ("placeholder-as-label" :> <<"Add proper label: <label for=\"name\">Name</label><input id=\"name\" placeholder=\"e.g. John\">", "Placeholders disappear on focus and are not read by all screen readers">>)
  @@ ("missing-autocomplete" :> <<"Add autocomplete: <input type=\"text\" name=\"name\" autocomplete=\"name\">", "For email: autocomplete=\"email\", for credit card: autocomplete=\"cc-number\"">>)
  @@ ("non-semantic-navigation" :> <<"Use <nav> element: <nav><a href=\"home.html\">Home</a></nav>", "Semantic elements improve accessibility">>)
  @@ ("radio-missing-fieldset" :> <<"<fieldset><legend>Choose option</legend><input type=\"radio\">...</fieldset>", "Group related radio buttons with fieldset and legend">>)
  @@ ("required-not-indicated" :> <<"Add visual indicator: <label>Email <span aria-hidden=\"true\">*</span><span class=\"sr-only\">required</span></label>", "Or use aria-required: <input type=\"email\" aria-required=\"true\">">>)
  @@ ("link-non-descriptive" :> <<"Use descriptive text instead of \"click here\" or \"read more\"", "Example: \"Read our accessibility guide\" instead of \"Click here\"">>)
  @@ ("missing-lang-foreign" :> <<"Add lang attribute to foreign language text: <p lang=\"fr\">Bonjour</p>", "Screen readers use lang to pronounce text correctly">>)
  @@ ("heading-hierarchy" :> <<"Follow heading hierarchy: h1 -> h2 -> h3 (do not skip levels)", "Headings should not jump from h1 to h3">>)

\* A JavaScript undefined where a list is expected.
UNDEF == <<"#undefined">>

\* table[key] of a JavaScript object: undefined for a missing key.
Lookup(table, key) == IF key \in DOMAIN table THEN table[key] ELSE UNDEF

validAriaRoles ==
  {"alert", "alertdialog", "application", "article", "banner", "button",
   "cell", "checkbox", "columnheader", "combobox", "complementary",
   "contentinfo", "definition", "dialog", "directory", "document",
   "feed", "figure", "form", "grid", "gridcell", "group", "heading",
   "img", "link", "list", "listbox", "listitem", "log", "main",
   "marquee", "math", "menu", "menubar", "menuitem", "menuitemcheckbox",
   "menuitemradio", "navigation", "none", "note", "option", "presentation",
   "progressbar", "radio", "radiogroup", "region", "row", "rowgroup",
   "rowheader", "scrollbar", "search", "searchbox", "separator", "slider",
   "spinbutton", "status", "switch", "tab", "table", "tablist", "tabpanel",
   "term", "textbox", "timer", "toolbar", "tooltip", "tree", "treegrid",
   "treeitem"}

roleRequiredAria ==
  ("checkbox" :> <<"aria-checked">>)
  @@ ("combobox" :> <<"aria-expanded", "aria-controls">>)
  @@ ("radio" :> <<"aria-checked">>)
  @@ ("scrollbar" :> <<"aria-controls", "aria-valuenow", "aria-valuemin", "aria-valuemax">>)
  @@ ("slider" :> <<"aria-valuenow", "aria-valuemin", "aria-valuemax">>)
  @@ ("spinbutton" :> <<"aria-valuenow">>)
  @@ ("switch" :> <<"aria-checked">>)
  @@ ("tab" :> <<"aria-selected">>)
  @@ ("progressbar" :> <<"aria-valuenow">>)

implicitRoles ==
  ("button" :> "button") @@ ("a" :> "link") @@ ("nav" :> "navigation")
  @@ ("main" :> "main") @@ ("header" :> "banner") @@ ("footer" :> "contentinfo")
  @@ ("aside" :> "complementary") @@ ("section" :> "region") @@ ("article" :> "article")
  @@ ("form" :> "form") @@ ("table" :> "table") @@ ("ul" :> "list") @@ ("ol" :> "list")
  @@ ("li" :> "listitem") @@ ("h1" :> "heading") @@ ("h2" :> "heading")
  @@ ("h3" :> "heading") @@ ("h4" :> "heading") @@ ("h5" :> "heading")
  @@ ("h6" :> "heading") @@ ("img" :> "img")
  @@ ("input[type=\"checkbox\"]" :> "checkbox") @@ ("input[type=\"radio\"]" :> "radio")
  @@ ("select" :> "combobox") @@ ("textarea" :> "textbox")

\* The characters of the tag names the model uses (for String.indexOf and for
\* regexes that match a name by its first characters).
Chars(name) ==
  CASE name = "a"       -> <<"a">>
    [] name = "audio"   -> <<"a", "u", "d", "i", "o">>
    [] name = "article" -> <<"a", "r", "t", "i", "c", "l", "e">>
    [] name = "nav"     -> <<"n", "a", "v">>
    [] name = "navbar"  -> <<"n", "a", "v", "b", "a", "r">>
    [] name = "h1"      -> <<"h", "1">>
    [] name = "html"    -> <<"h", "t", "m", "l">>
    [] name = "head"    -> <<"h", "e", "a", "d">>
    [] name = "th"      -> <<"t", "h">>
    [] name = "thead"   -> <<"t", "h", "e", "a", "d">>
    [] name = "title"   -> <<"t", "i", "t", "l", "e">>
    [] name = "table"   -> <<"t", "a", "b", "l", "e">>
    [] name = "tr"      -> <<"t", "r">>
    [] name = "track"   -> <<"t", "r", "a", "c", "k">>
    [] name = "div"     -> <<"d", "i", "v">>
    [] name = "i"       -> <<"i">>
    [] name = "img"     -> <<"i", "m", "g">>
    [] name = "input"   -> <<"i", "n", "p", "u", "t">>
    [] name = "iframe"  -> <<"i", "f", "r", "a", "m", "e">>
    [] name = "b"       -> <<"b">>
    [] name = "body"    -> <<"b", "o", "d", "y">>
    [] name = "button"  -> <<"b", "u", "t", "t", "o", "n">>
    [] name = "blink"   -> <<"b", "l", "i", "n", "k">>
    [] OTHER            -> <<name>>

IsPrefix(p, n) ==
  LET starts(cp, cn) == Len(cp) <= Len(cn) /\ SubSeq(cn, 1, Len(cp)) = cp
  IN starts(Chars(p), Chars(n))

Has(tok, a) == a \in DOMAIN tok.attrs
\* node.attribs[a] of a present attribute.
Val(tok, a) == IF tok.attrs[a] = Bare THEN "" ELSE tok.attrs[a]
\* JavaScript truthiness of node.attribs[a]: present and not the empty string.
Set(tok, a) == Has(tok, a) /\ Val(tok, a) # ""
\* node.attribs[a] === v
Eq(tok, a, v) == Has(tok, a) /\ Val(tok, a) = v

\* Elements that htmlparser2 closes as soon as they open.
voidElements == {"img", "input", "track", "br", "hr", "meta", "link", "source"}

\* 0-based offset of token k in the content.
Offset(toks, k) == SumSeq([j \in 1..(k - 1) |-> Width(toks[j])])

RECURSIVE getLineNumberLoop(_, _, _, _)
getLineNumberLoop(lines, index, i, currentIndex) ==
  IF i >= Len(lines) THEN Len(lines)
  ELSE LET test(c) == IF c >= index THEN i + 1 ELSE getLineNumberLoop(lines, index, i + 1, c)
       IN test(currentIndex + LineLength(lines[i + 1]) + 1)

\* A faulty getLineNumber that counts lines from 0; C25_LineInRange must not
\* hold of it.
getLineNumberZeroBased(lines, index) == getLineNumberLoop(lines, index, 0, 0) - 1

getLineNumber(lines, index) == getLineNumberLoop(lines, index, 0, 0)

\* htmlparser2's element stack after a close tag: the nearest open element of
\* that name is closed together with everything opened inside it; a close
\* tag that matches no open element is ignored.
StackAfterClose(toks, stack, name) ==
  LET cut(hits) ==
        IF hits = {} THEN stack
        ELSE SubSeq(stack, 1, (CHOOSE q \in hits : \A r \in hits : r <= q) - 1)
  IN cut({q \in 1..Len(stack) : Lower(toks[stack[q]].name) = Lower(name)})

RECURSIVE parentsScan(_, _, _, _)
parentsScan(toks, k, stack, acc) ==
  IF Len(acc) >= Len(toks) \/ Len(stack) > Len(toks) THEN acc
  ELSE LET push(tok) ==
             CASE tok.t = "open" ->
                    IF Lower(tok.name) \in voidElements THEN stack ELSE Append(stack, k)
               [] tok.t = "close" -> StackAfterClose(toks, stack, tok.name)
               [] OTHER -> stack
       IN parentsScan(toks, k + 1, push(toks[k]),
                      Append(acc, IF stack = <<>> THEN 0 ELSE stack[Len(stack)]))

\* The tree DomHandler builds, as the parent of every token: the index of
\* the open tag of the enclosing element, 0 at the top level.
Parents(toks) == parentsScan(toks, 1, <<>>, <<>>)

IsTextTok(tok) == tok.t \in {"text", "finding"}
BlankData(d) == d \in {" ", "\n", ""}
\* child.type === 'text' && child.data.trim()
NonBlankText(tok) == IsTextTok(tok) /\ ~BlankData(tok.data)
\* node.name of an element: lowerCaseTags is on.
TagName(tok) == Lower(tok.name)

\* node.children of element k (k = 0: the top-level nodes), as token indices.
ChildNodes(toks, par, k) ==
  SelectSeq(Indices(Len(toks)), LAMBDA j : par[j] = k /\ toks[j].t # "close")

RECURSIVE runsOf(_, _, _, _, _)
\* The text children of an element: adjacent pieces of text are one node.
runsOf(toks, kids, i, acc, prevText) ==
  IF i > Len(kids) THEN acc
  ELSE LET add(tok) ==
             IF IsTextTok(tok)
             THEN IF prevText
                  THEN runsOf(toks, kids, i + 1,
                              [acc EXCEPT ![Len(acc)] = Append(@, tok.data)], TRUE)
                  ELSE runsOf(toks, kids, i + 1, Append(acc, <<tok.data>>), TRUE)
             ELSE runsOf(toks, kids, i + 1, acc, FALSE)
       IN add(toks[kids[i]])

RECURSIVE TrimLeft(_)
TrimLeft(r) == IF r # <<>> /\ BlankData(Head(r)) THEN TrimLeft(Tail(r)) ELSE r
RECURSIVE TrimRight(_)
TrimRight(r) ==
  IF r # <<>> /\ BlankData(r[Len(r)]) THEN TrimRight(SubSeq(r, 1, Len(r) - 1)) ELSE r
\* String.prototype.trim
Trim(r) == TrimRight(TrimLeft(r))

RECURSIVE JoinSpace(_)
\* Array.prototype.join(' ')
JoinSpace(runs) ==
  IF runs = <<>> THEN <<>>
  ELSE IF Len(runs) = 1 THEN runs[1]
  ELSE runs[1] \o <<" ">> \o JoinSpace(Tail(runs))

\* The link text the non-descriptive check compares: the text children,
\* each trimmed, joined by a space, in lower case.
textContent(toks, par, k) ==
  LET joined(runs) == toLowerCase(JoinSpace([i \in 1..Len(runs) |-> Trim(runs[i])]))
  IN joined(runsOf(toks, ChildNodes(toks, par, k), 1, <<>>, FALSE))

\* ['click here', 'read more', 'more', 'here', 'link'], as they can be
\* spelled with the atoms of the model.
nonDescriptive ==
  { <<"click here">>, <<"click", " ", "here">>, <<"read more">>,
    <<"read", " ", "more">>, <<"more">>, <<"here">>, <<"link">> }

\* A faulty redundant-phrasing test that never matches; C12_AltTextRoundTrip
\* must not hold of it.
redundantWordsNever(alt) == FALSE

\* /\b(image|picture|photo|graphic)\s+(of|depicting)\b/i .test(alt)
redundantWords(alt) ==
  Lower(alt) \in {"image of logo", "photo of a cat", "picture depicting sunset"}

\* parseInt(attrs.tabindex) > 0
parseIntPositive(v) == v \in {"1", "5", "3px"}

personalFields == {"email", "name", "tel", "url", "text"}
\* personalNames.some(field => attrs.name?.toLowerCase().includes(field))
personalName(tok) ==
  Has(tok, "name") /\ Lower(Val(tok, "name")) \in {"email", "username", "e-mail", "phone", "fullname"}

\* attrs['aria-label']?.includes('new window') || ...includes('new tab')
mentionsNewWindow(v) == v \in {"Docs (opens in new window)", "Docs, new tab"}

\* style value matched by /style=["'][^"']*outline:\s*none/gi
styleRemovesOutline(v) == Lower(v) \in {"outline: none", "color: red; outline:none"}

V(ruleId, severity, line, message) ==
  [ruleId |-> ruleId, severity |-> severity, line |-> line, column |-> 1,
   message |-> message,
   wcag |-> Lookup(violationToWCAG, ruleId),
   fix |-> Lookup(fixSuggestions, ruleId)]

When(cond, v) == IF cond THEN <<v>> ELSE <<>>

(***************************************************************************)
(* analyzeHTML: the per-node checks of traverse, in the order of the code. *)
(* tok is the element's open tag, k its index, line the current lineNumber.*)
(***************************************************************************)
checkImage(tok, line) ==
  IF TagName(tok) # "img" THEN <<>>
  ELSE IF ~Has(tok, "alt")
       THEN <<V("img-missing-alt", "error", line, <<"Image elements must have an alt attribute">>)>>
       ELSE When(Set(tok, "alt") /\ redundantWords(Val(tok, "alt")),
                 V("img-redundant-alt", "warning", line,
                   <<"Alt text should not include redundant words like \"image of\" or \"picture of\"">>))

checkInput(tok, line) ==
  IF ~(TagName(tok) = "input" /\ ~Eq(tok, "type", "hidden") /\ ~Eq(tok, "type", "submit")
        /\ ~Eq(tok, "type", "button"))
  THEN <<>>
  ELSE LET hasLabel == Set(tok, "aria-label") \/ Set(tok, "aria-labelledby") \/ Set(tok, "id")
       IN When(~hasLabel,
               V("form-input-missing-label", "error", line, <<"Form input must have an associated label">>))
          \o When(Set(tok, "placeholder") /\ ~hasLabel,
               V("placeholder-as-label", "error", line,
                 <<"Placeholder should not be used as a label replacement">>))
          \o When(((Has(tok, "type") /\ Val(tok, "type") \in personalFields) \/ personalName(tok))
                  /\ ~Set(tok, "autocomplete"),
               V("missing-autocomplete", "warning", line,
                 <<"Personal info input should have autocomplete attribute">>))
          \o When(Has(tok, "required") /\ ~Set(tok, "aria-required"),
               V("required-not-indicated", "warning", line,
                 <<"Required fields should have aria-required and visual indication">>))

\* children.some(child => (text with non-blank data) || child.type === 'tag')
hasTextOrTag(toks, par, k) ==
  \E j \in 1..Len(toks) : par[j] = k /\ (NonBlankText(toks[j]) \/ toks[j].t = "open")

hasAriaName(tok) == Set(tok, "aria-label") \/ Set(tok, "aria-labelledby")

checkButton(toks, par, k, line) ==
  When(TagName(toks[k]) = "button" /\ ~hasTextOrTag(toks, par, k) /\ ~hasAriaName(toks[k]),
       V("button-empty", "error", line, <<"Button must have text content or aria-label">>))

checkLink(toks, par, k, line) ==
  IF TagName(toks[k]) # "a" THEN <<>>
  ELSE LET tok == toks[k]
           hasContent ==
             \E j \in 1..Len(toks) :
               /\ par[j] = k
               /\ \/ NonBlankText(toks[j])
                  \/ (toks[j].t = "open" /\ TagName(toks[j]) = "img" /\ Set(toks[j], "alt"))
           text == textContent(toks, par, k)
       IN When(~hasContent /\ ~hasAriaName(tok),
               V("link-empty", "error", line, <<"Link must have text content or aria-label">>))
          \o When(hasContent /\ text \in nonDescriptive,
               V("link-non-descriptive", "warning", line, <<"Non-descriptive link text: ">> \o text))
          \o When(Eq(tok, "target", "_blank")
                  /\ ~(Has(tok, "aria-label") /\ mentionsNewWindow(Val(tok, "aria-label"))),
               V("link-new-window-no-warning", "warning", line,
                 <<"Links opening in new windows should warn users">>))

checkIframe(tok, line) ==
  When(TagName(tok) = "iframe" /\ ~Set(tok, "title"),
       V("iframe-missing-title", "error", line, <<"Iframe elements must have a title attribute">>))

checkDivButton(tok, line) ==
  When(TagName(tok) \in {"div", "span"} /\ Set(tok, "onclick")
       /\ LET hasRole == Eq(tok, "role", "button")
              hasTabindex == Has(tok, "tabindex")
              hasKeyboard == Set(tok, "onkeydown") \/ Set(tok, "onkeypress") \/ Set(tok, "onkeyup")
          IN ~hasRole \/ ~hasTabindex \/ ~hasKeyboard,
       V("div-as-button", "error", line,
         <<"Interactive div/span must have role=\"button\", tabindex, and keyboard handlers">>))

checkTabindex(tok, line) ==
  When(Set(tok, "tabindex") /\ parseIntPositive(Val(tok, "tabindex")),
       V("positive-tabindex", "error", line,
         <<"Avoid positive tabindex values as they disrupt natural tab order">>))

isHeading(name) == name \in {"h1", "h2", "h3", "h4", "h5", "h6"}

checkHeading(toks, par, k, line) ==
  When(isHeading(TagName(toks[k])) /\ ~hasTextOrTag(toks, par, k) /\ ~hasAriaName(toks[k]),
       V("heading-empty", "error", line, <<"Heading must have text content or aria-label">>))

RECURSIVE isDescendant(_, _, _)
isDescendant(par, j, k) ==
  IF par[j] = 0 THEN FALSE ELSE par[j] = k \/ isDescendant(par, par[j], k)

\* hasHeaderElements(node.children): a thead or th element below the table.
hasHeaderElements(toks, par, k) ==
  \E j \in 1..Len(toks) :
    toks[j].t = "open" /\ TagName(toks[j]) \in {"thead", "th"} /\ isDescendant(par, j, k)

checkTable(toks, par, k, line) ==
  When(TagName(toks[k]) = "table" /\ ~hasHeaderElements(toks, par, k),
       V("table-missing-headers", "error", line, <<"Table must have <thead> and <th> elements">>))

checkAutoplay(tok, line) ==
  When(TagName(tok) \in {"video", "audio"} /\ Has(tok, "autoplay")
       /\ ~Set(tok, "muted") /\ ~Set(tok, "controls"),
       V("autoplay-media", "error", line, <<"Autoplaying media must be muted or have controls">>))

checkCaptions(toks, par, k, line) ==
  When(TagName(toks[k]) \in {"video", "audio"}
       /\ ~\E j \in 1..Len(toks) :
             /\ par[j] = k /\ toks[j].t = "open" /\ TagName(toks[j]) = "track"
             /\ (Eq(toks[j], "kind", "captions") \/ Eq(toks[j], "kind", "subtitles")),
       V("media-no-captions", "error", line,
         <<IF TagName(toks[k]) = "video" THEN "Video" ELSE "Audio", " must have captions or transcript">>))

RECURSIVE requiredAria(_, _, _, _)
\* for (const prop of required) if (!attrs[prop]) ...
requiredAria(tok, required, i, line) ==
  IF i > Len(required) THEN <<>>
  ELSE When(~Set(tok, required[i]),
            V("missing-aria-required", "error", line,
              <<"Role requires attribute", Val(tok, "role"), required[i]>>))
       \o requiredAria(tok, required, i + 1, line)

\* The names an object literal inherits from Object.prototype: a lookup
\* such as roleRequiredAria[attrs.role] with one of them finds a function
\* (for __proto__ the prototype object), which is truthy and not iterable.
ObjectPrototype ==
  {"constructor", "toString", "toLocaleString", "valueOf", "hasOwnProperty",
   "isPrototypeOf", "propertyIsEnumerable", "__proto__"}

\* `for (const prop of required)` raises a TypeError when `required` is
\* not iterable.
requiredThrows(tok) == Set(tok, "role") /\ Val(tok, "role") \in ObjectPrototype

\* Some element traverse visits makes one of its checks throw.
traverseThrows(toks) ==
  \E k \in 1..Len(toks) : toks[k].t = "open" /\ requiredThrows(toks[k])

checkRole(tok, line) ==
  IF ~Set(tok, "role") THEN <<>>
  ELSE LET role == Val(tok, "role")
       IN When(TagName(tok) \in DOMAIN implicitRoles /\ implicitRoles[TagName(tok)] = role,
               V("redundant-role", "warning", line, <<"Redundant role on element", role, TagName(tok)>>))
          \o When(role \notin validAriaRoles,
               V("invalid-aria-role", "error", line, <<"Invalid ARIA role: ", role>>))
          \o (IF role \in DOMAIN roleRequiredAria
              THEN requiredAria(tok, roleRequiredAria[role], 1, line)
              ELSE <<>>)

checkNode(toks, par, k, line) ==
  LET tok == toks[k]
  IN checkImage(tok, line) \o checkInput(tok, line) \o checkButton(toks, par, k, line)
     \o checkLink(toks, par, k, line) \o checkIframe(tok, line) \o checkDivButton(tok, line)
     \o checkTabindex(tok, line) \o checkHeading(toks, par, k, line)
     \o checkTable(toks, par, k, line) \o checkAutoplay(tok, line)
     \o checkCaptions(toks, par, k, line) \o checkRole(tok, line)

(***************************************************************************)
(* analyzeHTML: line tracking and the traversal                            *)
(***************************************************************************)
MinOf(S) == CHOOSE x \in S : \A y \in S : x <= y

\* content.indexOf('<' + name, from): the first tag at or after `from`
\* whose text starts with these characters (case-sensitive), else -1.
indexOfTag(toks, name, from) ==
  LET first(hits) == IF hits = {} THEN -1 ELSE Offset(toks, MinOf(hits))
  IN first({j \in 1..Len(toks) :
              toks[j].t = "open" /\ IsPrefix(name, toks[j].name) /\ Offset(toks, j) >= from})

\* lines.slice(0, n).join('\n').length
joinedLength(lines, n) ==
  SumSeq([i \in 1..n |-> LineLength(lines[i])]) + (IF n > 0 THEN n - 1 ELSE 0)

\* The line tracking at the head of the traverse loop.
trackLine(lines, toks, tagName, lineNumber) ==
  LET found(index) == IF index # -1 THEN getLineNumber(lines, index) ELSE lineNumber
  IN found(indexOfTag(toks, tagName,
                      IF lineNumber > 1 THEN joinedLength(lines, lineNumber - 1) ELSE 0))

RECURSIVE trackLines(_, _, _, _, _)
\* The value of lineNumber at each element traverse visits, in the order of
\* the visits (pre-order: the order of the open tags in the text).
trackLines(lines, toks, elems, lineNumber, acc) ==
  IF Len(acc) >= Len(elems) THEN acc
  ELSE LET next(ln) == trackLines(lines, toks, elems, ln, Append(acc, ln))
       IN next(trackLine(lines, toks, TagName(toks[elems[Len(acc) + 1]]), lineNumber))

\* traverse(dom): the checks of every element in document order; st carries
\* the violations pushed so far and the lineNumber variable of analyzeHTML.
traverse(lines, toks, par, st) ==
  LET visit(elems, lns) ==
        [violations |->
           st.violations
           \o Concat([i \in 1..Len(elems) |-> checkNode(toks, par, elems[i], lns[i])]),
         lineNumber |-> IF elems = <<>> THEN st.lineNumber ELSE lns[Len(lns)]]
      track(elems) == visit(elems, trackLines(lines, toks, elems, st.lineNumber, <<>>))
  IN track(SelectSeq(Indices(Len(toks)), LAMBDA k : toks[k].t = "open"))

(***************************************************************************)
(* analyzeHTML: post-traversal checks                                      *)
(***************************************************************************)
\* A faulty collectIds that reports every element of a shared id, the first
\* one too; C14_DuplicateIds must not hold of it.
collectIdsAll(toks, line) ==
  LET hasId(k) == toks[k].t = "open" /\ Set(toks[k], "id")
      each(idx) ==
        [i \in 1..Len(idx) |->
           V("duplicate-id", "error", line, <<"Duplicate ID found", Val(toks[idx[i]], "id")>>)]
  IN each(SelectSeq(Indices(Len(toks)), LAMBDA k :
            /\ toks[k].t = "open" /\ Set(toks[k], "id")
            /\ \E j \in 1..Len(toks) :
                 j # k /\ hasId(j) /\ Val(toks[j], "id") = Val(toks[k], "id")))

\* One duplicate-id per element whose id is already in idMap: an earlier
\* element has it.
collectIds(toks, line) ==
  LET hasId(k) == toks[k].t = "open" /\ Set(toks[k], "id")
      each(idx) ==
        [i \in 1..Len(idx) |->
           V("duplicate-id", "error", line, <<"Duplicate ID found", Val(toks[idx[i]], "id")>>)]
  IN each(SelectSeq(Indices(Len(toks)), LAMBDA k :
            /\ toks[k].t = "open" /\ Set(toks[k], "id")
            /\ \E j \in 1..(k - 1) : hasId(j) /\ Val(toks[j], "id") = Val(toks[k], "id")))

headingLevel(name) ==
  CASE name = "h1" -> 1 [] name = "h2" -> 2 [] name = "h3" -> 3
    [] name = "h4" -> 4 [] name = "h5" -> 5 [] OTHER -> 6

\* collectHeadings: /^h[1-6]$/.test(node.name), with the line variable.
collectHeadings(toks, line) ==
  LET each(idx) ==
        [i \in 1..Len(idx) |-> [level |-> headingLevel(TagName(toks[idx[i]])), line |-> line]]
  IN each(SelectSeq(Indices(Len(toks)),
                    LAMBDA k : toks[k].t = "open" /\ isHeading(TagName(toks[k]))))

\* A faulty hierarchy loop that also reports a decrease of more than one
\* level; C13_HeadingMonotonicity must not hold of it.
headingHierarchyBothWays(headings) ==
  LET each(idx) ==
        [n \in 1..Len(idx) |->
           V("heading-hierarchy", "warning", headings[idx[n]].line,
             <<"Heading hierarchy skipped", ToString(headings[idx[n] - 1].level),
               ToString(headings[idx[n]].level)>>)]
  IN each(SelectSeq(Indices(Len(headings)), LAMBDA i :
            /\ i > 1
            /\ \/ headings[i].level > headings[i - 1].level + 1
               \/ headings[i - 1].level > headings[i].level + 1))

headingHierarchy(headings) ==
  LET each(idx) ==
        [n \in 1..Len(idx) |->
           V("heading-hierarchy", "warning", headings[idx[n]].line,
             <<"Heading hierarchy skipped", ToString(headings[idx[n] - 1].level),
               ToString(headings[idx[n]].level)>>)]
  IN each(SelectSeq(Indices(Len(headings)), LAMBDA i :
            i > 1 /\ headings[i].level > headings[i - 1].level + 1))

\* collectRadios: the names of the radio inputs in document order (a
\* missing name attribute is the empty string here; both are falsy).
collectRadios(toks) ==
  LET each(idx) ==
        [i \in 1..Len(idx) |->
           IF Has(toks[idx[i]], "name") THEN Val(toks[idx[i]], "name") ELSE ""]
  IN each(SelectSeq(Indices(Len(toks)),
                    LAMBDA k : toks[k].t = "open" /\ TagName(toks[k]) = "input"
                               /\ Eq(toks[k], "type", "radio")))

\* The keys of the radioGroups Map in insertion order: the truthy names,
\* each at its first occurrence.
groupOrder(names) ==
  LET each(idx) == [i \in 1..Len(idx) |-> names[idx[i]]]
  IN each(SelectSeq(Indices(Len(names)), LAMBDA j :
            names[j] # "" /\ \A q \in 1..(j - 1) : names[q] # names[j]))

\* /<fieldset[^>]*>[\s\S]*?<input[^>]*type=["']?radio["']?[^>]*name=["']?${name}["']?/i
\* is a regex literal, not a template: "$" is the end-of-input assertion and
\* "{name}" the six characters that would have to follow it, so the
\* expression matches no string.
fieldsetRegexTest(toks, name) == FALSE

radioFieldsets(toks, order, names, line) ==
  LET each(groups) ==
        [i \in 1..Len(groups) |->
           V("radio-missing-fieldset", "warning", line,
             <<"Radio button group should be wrapped in <fieldset> with <legend>", groups[i]>>)]
  IN each(SelectSeq(order, LAMBDA name :
            Cardinality({j \in 1..Len(names) : names[j] = name}) > 1
            /\ ~fieldsetRegexTest(toks, name)))

\* Token classes of the raw-text regexes of analyzeHTML.
IsHtml(cls, tok) ==
  CASE cls = "divOpen" -> tok.t = "open" /\ IsPrefix("div", Lower(tok.name))
    [] cls = "blank"   -> tok.t = "text" /\ BlankData(tok.data)
    [] cls = "aHref"   -> tok.t = "open" /\ IsPrefix("a", Lower(tok.name))
                          /\ \E a \in DOMAIN tok.attrs : Lower(a) = "href"
    [] cls = "notLt"   -> IsTextTok(tok)
    [] cls = "aClose"  -> tok.t = "close" /\ Lower(tok.name) = "a"
    [] OTHER           -> FALSE

RECURSIVE MatchHtml(_, _, _, _)
MatchHtml(re, k, s, i) ==
  IF k > Len(re) THEN TRUE
  ELSE LET step(here) ==
             CASE re[k].q = "1" -> here /\ MatchHtml(re, k + 1, s, i + 1)
               [] re[k].q = "?" -> (here /\ MatchHtml(re, k + 1, s, i + 1)) \/ MatchHtml(re, k + 1, s, i)
               [] OTHER         -> (here /\ MatchHtml(re, k, s, i + 1)) \/ MatchHtml(re, k + 1, s, i)
       IN step(i <= Len(s) /\ IsHtml(re[k].cls, s[i]))

navLink == << One("aHref"), Star("notLt"), One("aClose"), Star("blank") >>
\* /<div[^>]*>\s*(<a[^>]+href[^>]*>[^<]*<\/a>\s*){3,}/gi
navPattern == << One("divOpen"), Star("blank") >> \o navLink \o navLink \o navLink

checkNavigation(lines, toks) ==
  LET report(starts) ==
        When(starts # {}
             /\ ~\E j \in 1..Len(toks) : toks[j].t = "open" /\ IsPrefix("nav", Lower(toks[j].name)),
             V("non-semantic-navigation", "warning",
               getLineNumber(lines, Offset(toks, MinOf(starts))),
               <<"Multiple navigation links should be wrapped in <nav> element">>))
  IN report({i \in 1..Len(toks) : MatchHtml(navPattern, 1, toks, i)})

(***************************************************************************)
(* analyzeHTML: document-level checks on the raw text, and the whole       *)
(***************************************************************************)
\* /<html[^>]*\slang=/i
hasLang(toks) ==
  \E j \in 1..Len(toks) :
    /\ toks[j].t = "open" /\ IsPrefix("html", Lower(toks[j].name))
    /\ \E a \in DOMAIN toks[j].attrs : Lower(a) = "lang" /\ toks[j].attrs[a] # Bare

\* content.match(/<title[^>]*>(.*?)<\/title>/is): the leftmost title tag
\* that a </title> follows, and the text up to the nearest one.
titleStarts(toks) ==
  {j \in 1..Len(toks) :
     /\ toks[j].t = "open" /\ IsPrefix("title", Lower(toks[j].name))
     /\ \E c \in (j + 1)..Len(toks) : toks[c].t = "close" /\ Lower(toks[c].name) = "title"}

\* !titleMatch || !titleMatch[1].trim()
titleEmpty(toks) ==
  LET between(j, c) == \A i \in (j + 1)..(c - 1) : toks[i].t = "text" /\ BlankData(toks[i].data)
      from(j) == between(j, MinOf({c \in (j + 1)..Len(toks) :
                                     toks[c].t = "close" /\ Lower(toks[c].name) = "title"}))
      test(starts) == starts = {} \/ from(MinOf(starts))
  IN test(titleStarts(toks))

\* /<main[\s>]/i or /role=["']main["']/i
hasMain(toks) ==
  \E j \in 1..Len(toks) :
    /\ toks[j].t = "open"
    /\ \/ Lower(toks[j].name) = "main"
       \/ \E a \in DOMAIN toks[j].attrs :
            Lower(a) = "role" /\ toks[j].attrs[a] # Bare /\ Lower(toks[j].attrs[a]) = "main"

\* while ((marqueeMatch = /<(marquee|blink)[\s>]/gi.exec(content)) !== null)
marquees(lines, toks) ==
  LET each(idx) ==
        [i \in 1..Len(idx) |->
           V("marquee-element", "error", getLineNumber(lines, Offset(toks, idx[i])),
             <<"element is deprecated and causes accessibility issues", Lower(toks[idx[i]].name)>>)]
  IN each(SelectSeq(Indices(Len(toks)), LAMBDA j :
            toks[j].t = "open" /\ Lower(toks[j].name) \in {"marquee", "blink"}))

documentChecks(lines, toks) ==
  When(~hasLang(toks),
       V("missing-lang", "error", 1, <<"The <html> element must have a lang attribute">>))
  \o When(titleEmpty(toks),
       V("title-empty", "error", getLineNumber(lines, indexOfTag(toks, "title", 0)),
         <<"Page must have a non-empty <title> element">>))
  \o When(~hasMain(toks),
       V("missing-main-landmark", "error", 1, <<"Page should have a <main> landmark element">>))
  \o marquees(lines, toks)

\* The `error` argument of the DomHandler callback.  The tree builder is a
\* dependency; what makes it report an error is left open, and a text on
\* which it does carries this construct.
ParseError == Finding("html", "#parse-error", "error")

parseError(toks) == \E k \in 1..Len(toks) : toks[k] = ParseError

\* A faulty DomHandler callback that gives up the findings made so far when
\* the tree builder reports an error; C20_ParseErrorRecovered must not hold
\* of it.
domChecksDiscarding(lines, toks, st0) ==
  LET post(st, names) ==
        [violations |->
           st.violations
           \o collectIds(toks, st.lineNumber)
           \o headingHierarchy(collectHeadings(toks, st.lineNumber))
           \o radioFieldsets(toks, groupOrder(names), names, st.lineNumber)
           \o checkNavigation(lines, toks),
         lineNumber |-> st.lineNumber]
  IN IF parseError(toks)
     THEN [violations |-> <<>>, lineNumber |-> st0.lineNumber]
     ELSE post(traverse(lines, toks, Parents(toks), st0), collectRadios(toks))

\* The DomHandler callback: `if (error) { console.error(...); return; }`,
\* otherwise traverse(dom), then the post-traversal checks, all with the
\* lineNumber traverse left behind.
domChecks(lines, toks, st0) ==
  LET post(st, names) ==
        [violations |->
           st.violations
           \o collectIds(toks, st.lineNumber)
           \o headingHierarchy(collectHeadings(toks, st.lineNumber))
           \o radioFieldsets(toks, groupOrder(names), names, st.lineNumber)
           \o checkNavigation(lines, toks),
         lineNumber |-> st.lineNumber]
  IN IF parseError(toks)
     THEN st0
     ELSE post(traverse(lines, toks, Parents(toks), st0), collectRadios(toks))

\* A faulty analyzeHTML whose lineNumber outlives the call;
\* C10_Deterministic must not hold of it.
sharedLineNumber(previous) == previous

\* `let lineNumber = 1` of analyzeHTML: every call starts its own.  The
\* argument is the value a previous call left behind.
initialLineNumber(previous) == 1

\* A faulty analyzeHTML that keeps lineNumber in module scope, so that a
\* call starts from what another call left; C11_NoSharedState must not hold
\* of it.
analyzeHTMLModuleState(content, previous) ==
  IF ~IsString(content)
  THEN [threw |-> TRUE, violations |-> <<>>, lineNumber |-> previous]
  ELSE LET done(st) ==
             [threw |-> FALSE, violations |-> st.violations, lineNumber |-> st.lineNumber]
           run(lines, toks) ==
             done(domChecks(lines, toks,
                            [violations |-> documentChecks(lines, toks),
                             lineNumber |-> previous]))
       IN run(content.lines, Flatten(content.lines))

\* analyzeHTML up to its await (line 828): content.split throws for a value
\* that is not a string; otherwise the document checks and the parse run.
\* Nothing in analyzeHTML catches: what a check throws inside the DomHandler
\* callback leaves through parser.end() and analyzeHTML rejects.
analyzeHTMLSync(content, previous) ==
  IF ~IsString(content)
  THEN [threw |-> TRUE, violations |-> <<>>, lineNumber |-> previous]
  ELSE LET done(st) ==
             [threw |-> FALSE, violations |-> st.violations, lineNumber |-> st.lineNumber]
           run(lines, toks) ==
             IF ~parseError(toks) /\ traverseThrows(toks)
             THEN [threw |-> TRUE, violations |-> <<>>, lineNumber |-> previous]
             ELSE done(domChecks(lines, toks,
                                 [violations |-> documentChecks(lines, toks),
                                  lineNumber |-> initialLineNumber(previous)]))
       IN run(content.lines, Flatten(content.lines))

\* the /style=["'][^"']*outline:\s*none/gi loop; match.index is inside the tag
outlineChecks(lines, toks) ==
  LET each(idx) ==
        [i \in 1..Len(idx) |->
           V("focus-outline-removed", "error", getLineNumber(lines, Offset(toks, idx[i]) + 2),
             <<"Do not remove focus outlines without providing custom visible focus styles">>)]
  IN each(SelectSeq(Indices(Len(toks)), LAMBDA j :
            /\ toks[j].t = "open"
            /\ \E a \in DOMAIN toks[j].attrs :
                 /\ Lower(a) = "style" /\ toks[j].attrs[a] # Bare
                 /\ styleRemovesOutline(toks[j].attrs[a])))

\* analyzeHTML after its await: the inline-style check, then the return.
analyzeHTMLRest(content, violations) ==
  violations \o outlineChecks(content.lines, Flatten(content.lines))

(***************************************************************************)
(* Templating delegate and dispatcher: src/core/hybrid-analyzer.js         *)
(***************************************************************************)
\* hybrid-analyzer.js: linterConfig.rules
linterRules ==
  ("jsx-a11y/alt-text" :> "error")
  @@ ("jsx-a11y/anchor-has-content" :> "error")
  @@ ("jsx-a11y/anchor-is-valid" :> "error")
  @@ ("jsx-a11y/aria-activedescendant-has-tabindex" :> "error")
  @@ ("jsx-a11y/aria-props" :> "error")
  @@ ("jsx-a11y/aria-proptypes" :> "error")
  @@ ("jsx-a11y/aria-role" :> "error")
  @@ ("jsx-a11y/aria-unsupported-elements" :> "error")
  @@ ("jsx-a11y/autocomplete-valid" :> "error")
  @@ ("jsx-a11y/click-events-have-key-events" :> "error")
  @@ ("jsx-a11y/control-has-associated-label" :> "error")
  @@ ("jsx-a11y/heading-has-content" :> "error")
  @@ ("jsx-a11y/html-has-lang" :> "error")
  @@ ("jsx-a11y/iframe-has-title" :> "error")
  @@ ("jsx-a11y/img-redundant-alt" :> "error")
  @@ ("jsx-a11y/interactive-supports-focus" :> "error")
  @@ ("jsx-a11y/label-has-associated-control" :> "error")
  @@ ("jsx-a11y/media-has-caption" :> "error")
  @@ ("jsx-a11y/mouse-events-have-key-events" :> "error")
  @@ ("jsx-a11y/no-access-key" :> "error")
  @@ ("jsx-a11y/no-autofocus" :> "error")
  @@ ("jsx-a11y/no-distracting-elements" :> "error")
  @@ ("jsx-a11y/no-interactive-element-to-noninteractive-role" :> "error")
  @@ ("jsx-a11y/no-noninteractive-element-interactions" :> "error")
  @@ ("jsx-a11y/no-noninteractive-element-to-interactive-role" :> "error")
  @@ ("jsx-a11y/no-noninteractive-tabindex" :> "error")
  @@ ("jsx-a11y/no-redundant-roles" :> "error")
  @@ ("jsx-a11y/no-static-element-interactions" :> "error")
  @@ ("jsx-a11y/role-has-required-aria-props" :> "error")
  @@ ("jsx-a11y/role-supports-aria-props" :> "error")
  @@ ("jsx-a11y/scope" :> "error")
  @@ ("jsx-a11y/tabindex-no-positive" :> "error")
  @@ ("react/react-in-jsx-scope" :> "off")
  @@ ("react/prop-types" :> "off")
  @@ ("react/jsx-uses-react" :> "off")
  @@ ("react/jsx-uses-vars" :> "error")

\* hybrid-analyzer.js: ruleToWCAG
ruleToWCAG ==
  ("jsx-a11y/alt-text" :> <<"1.1.1">>)
  @@ ("jsx-a11y/anchor-has-content" :> <<"2.4.4">>)
  @@ ("jsx-a11y/anchor-is-valid" :> <<"2.4.4">>)
  @@ ("jsx-a11y/aria-activedescendant-has-tabindex" :> <<"4.1.2">>)
  @@ ("jsx-a11y/aria-props" :> <<"4.1.2">>)
  @@ ("jsx-a11y/aria-proptypes" :> <<"4.1.2">>)
  @@ ("jsx-a11y/aria-role" :> <<"4.1.2">>)
  @@ ("jsx-a11y/aria-unsupported-elements" :> <<"4.1.2">>)
  @@ ("jsx-a11y/autocomplete-valid" :> <<"1.3.5">>)
  @@ ("jsx-a11y/click-events-have-key-events" :> <<"2.1.1">>)
  @@ ("jsx-a11y/control-has-associated-label" :> <<"4.1.2">>)
  @@ ("jsx-a11y/heading-has-content" :> <<"2.4.6">>)
  @@ ("jsx-a11y/html-has-lang" :> <<"3.1.1">>)
  @@ ("jsx-a11y/iframe-has-title" :> <<"4.1.2">>)
  @@ ("jsx-a11y/img-redundant-alt" :> <<"1.1.1">>)
  @@ ("jsx-a11y/interactive-supports-focus" :> <<"2.1.1">>)
  @@ ("jsx-a11y/label-has-associated-control" :> <<"3.3.2">>)
  @@ ("jsx-a11y/media-has-caption" :> <<"1.2.2">>)
  @@ ("jsx-a11y/mouse-events-have-key-events" :> <<"2.1.1">>)
  @@ ("jsx-a11y/no-access-key" :> <<"2.4.1">>)
  @@ ("jsx-a11y/no-autofocus" :> <<"2.4.3">>)
  @@ ("jsx-a11y/no-distracting-elements" :> <<"2.2.2">>)
  @@ ("jsx-a11y/no-interactive-element-to-noninteractive-role" :> <<"4.1.2">>)
  @@ ("jsx-a11y/no-noninteractive-element-interactions" :> <<"4.1.2">>)
  @@ ("jsx-a11y/no-noninteractive-element-to-interactive-role" :> <<"4.1.2">>)
  @@ ("jsx-a11y/no-noninteractive-tabindex" :> <<"2.1.1">>)
  @@ ("jsx-a11y/no-redundant-roles" :> <<"4.1.2">>)
  @@ ("jsx-a11y/no-static-element-interactions" :> <<"4.1.2">>)
  @@ ("jsx-a11y/role-has-required-aria-props" :> <<"4.1.2">>)
  @@ ("jsx-a11y/role-supports-aria-props" :> <<"4.1.2">>)
  @@ ("jsx-a11y/scope" :> <<"1.3.1">>)
  @@ ("jsx-a11y/tabindex-no-positive" :> <<"2.4.3">>)

\* hybrid-analyzer.js: fixDescriptions
fixDescriptions ==
  ("jsx-a11y/alt-text" :> "Add alt attribute with meaningful description")
  @@ ("jsx-a11y/click-events-have-key-events" :> "Add keyboard event handlers (onKeyDown)")
  @@ ("jsx-a11y/no-static-element-interactions" :> "Replace with semantic button or add role and keyboard support")
  @@ ("jsx-a11y/label-has-associated-control" :> "Associate label with form control")
  @@ ("jsx-a11y/interactive-supports-focus" :> "Make interactive element keyboard focusable")
  @@ ("jsx-a11y/aria-role" :> "Use valid ARIA role from specification")
  @@ ("jsx-a11y/media-has-caption" :> "Add captions to video/audio elements")
  @@ ("jsx-a11y/no-autofocus" :> "Remove autoFocus attribute")
  @@ ("jsx-a11y/tabindex-no-positive" :> "Remove positive tabIndex values")
  @@ ("jsx-a11y/aria-props" :> "Fix ARIA property name")
  @@ ("jsx-a11y/role-has-required-aria-props" :> "Add required ARIA properties for this role")
  @@ ("jsx-a11y/heading-has-content" :> "Add text content to heading element")
  @@ ("jsx-a11y/iframe-has-title" :> "Add title attribute to iframe")
  @@ ("jsx-a11y/no-distracting-elements" :> "Remove <marquee> or <blink> elements")
  @@ ("jsx-a11y/anchor-has-content" :> "Add text content or aria-label to link")
  @@ ("jsx-a11y/anchor-is-valid" :> "Provide valid href or use button element")
  @@ ("jsx-a11y/control-has-associated-label" :> "Add accessible label to form control")
  @@ ("jsx-a11y/mouse-events-have-key-events" :> "Add keyboard equivalents for mouse events")
  @@ ("jsx-a11y/img-redundant-alt" :> "Remove redundant words like \"image\" or \"picture\" from alt text")
  @@ ("jsx-a11y/no-access-key" :> "Remove accessKey attribute")
  @@ ("jsx-a11y/aria-activedescendant-has-tabindex" :> "Add tabIndex when using aria-activedescendant")
  @@ ("jsx-a11y/aria-proptypes" :> "Use correct value type for ARIA property")
  @@ ("jsx-a11y/aria-unsupported-elements" :> "Remove ARIA from unsupported elements")
  @@ ("jsx-a11y/autocomplete-valid" :> "Use valid autocomplete value")
  @@ ("jsx-a11y/html-has-lang" :> "Add lang attribute to <html> element")
  @@ ("jsx-a11y/no-interactive-element-to-noninteractive-role" :> "Do not override interactive element semantics")
  @@ ("jsx-a11y/no-noninteractive-element-interactions" :> "Add proper role to non-interactive element with handlers")
  @@ ("jsx-a11y/no-noninteractive-element-to-interactive-role" :> "Use semantic interactive elements instead")
  @@ ("jsx-a11y/no-noninteractive-tabindex" :> "Remove tabIndex from non-interactive elements")
  @@ ("jsx-a11y/no-redundant-roles" :> "Remove redundant role that matches implicit semantics")
  @@ ("jsx-a11y/role-supports-aria-props" :> "Remove ARIA properties not supported by role")
  @@ ("jsx-a11y/scope" :> "Use scope attribute only on <th> elements")

\* hybrid-analyzer.js: fixSuggestions
eslintFixSuggestions ==
  ("jsx-a11y/alt-text" :> <<"<img src=\"/logo.png\" alt=\"Company logo\" />", "<img src=\"/decorative.png\" alt=\"\" /> // For decorative images", "Describe what the image conveys, not just \"image of...\"">>)
  @@ ("jsx-a11y/click-events-have-key-events" :> <<"<div onClick={handler} onKeyDown={(e) => { if (e.key === \"Enter\" || e.key === \" \") handler(); }} tabIndex={0}>", "Or better: <button onClick={handler}>Click me</button>", "Keyboard users need Enter/Space key support">>)
  @@ ("jsx-a11y/no-static-element-interactions" :> <<"Replace: <button onClick={handler}>Click me</button>", "Or add: <div role=\"button\" tabIndex={0} onClick={handler} onKeyDown={keyHandler}>", "const keyHandler = (e) => { if (e.key === \"Enter\" || e.key === \" \") handler(); }">>)
  @@ ("jsx-a11y/label-has-associated-control" :> <<"<label htmlFor=\"email\">Email</label><input id=\"email\" type=\"email\" />", "Or wrap: <label>Email <input type=\"email\" /></label>", "Or use: <input type=\"email\" aria-label=\"Email\" />">>)
  @@ ("jsx-a11y/interactive-supports-focus" :> <<"<div role=\"button\" tabIndex={0} onClick={handler}>", "Add tabIndex={0} to make element focusable", "Consider using <button> instead for better semantics">>)
  @@ ("jsx-a11y/aria-role" :> <<"Valid roles: button, link, menuitem, tab, checkbox, radio, dialog", "<div role=\"button\" tabIndex={0}>Click me</div>", "See: https://www.w3.org/TR/wai-aria-1.2/#role_definitions">>)
  @@ ("jsx-a11y/media-has-caption" :> <<"<video controls><track kind=\"captions\" src=\"captions.vtt\" /></video>", "<audio controls><track kind=\"captions\" src=\"captions.vtt\" /></audio>", "Always provide captions for accessibility">>)
  @@ ("jsx-a11y/no-autofocus" :> <<"Remove: autoFocus={true}", "Let users control focus flow naturally", "Exception: When explicitly needed (e.g., search on page load)">>)
  @@ ("jsx-a11y/tabindex-no-positive" :> <<"Remove: tabIndex={1}, tabIndex={5}, etc.", "Use: tabIndex={0} for natural tab order", "Use: tabIndex={-1} for programmatic focus only">>)
  @@ ("jsx-a11y/aria-props" :> <<"Check spelling: aria-labelledby (not aria-labeledby)", "Valid props: aria-label, aria-describedby, aria-hidden, etc.", "See: https://www.w3.org/TR/wai-aria-1.2/#state_prop_def">>)
  @@ ("jsx-a11y/role-has-required-aria-props" :> <<"role=\"checkbox\" requires: aria-checked", "role=\"slider\" requires: aria-valuemin, aria-valuemax, aria-valuenow", "Check MDN or W3C ARIA spec for role requirements">>)
  @@ ("jsx-a11y/heading-has-content" :> <<"<h1>Page Title</h1>", "<h2>{dynamicTitle}</h2>", "Headings must not be empty">>)
  @@ ("jsx-a11y/iframe-has-title" :> <<"<iframe src=\"...\" title=\"YouTube video player\" />", "<iframe src=\"...\" title=\"External content from example.com\" />", "Title helps users understand iframe purpose">>)
  @@ ("jsx-a11y/no-distracting-elements" :> <<"Remove: <marquee> and <blink>", "Use CSS: animation or transition instead", "Provide controls to pause/stop animations">>)
  @@ ("jsx-a11y/anchor-has-content" :> <<"<a href=\"/about\">About Us</a>", "<a href=\"/contact\" aria-label=\"Contact page\">?</a>", "Links need visible text or aria-label">>)
  @@ ("jsx-a11y/anchor-is-valid" :> <<"<a href=\"/page\">Go to page</a> // Valid navigation", "<button onClick={handler}>Do action</button> // For actions", "Avoid: href=\"#\" or href=\"javascript:void(0)\"">>)
  @@ ("jsx-a11y/control-has-associated-label" :> <<"<label htmlFor=\"name\">Name</label><input id=\"name\" />", "<input aria-label=\"Search\" type=\"search\" />", "<button aria-label=\"Close\">?</button>">>)
  @@ ("jsx-a11y/mouse-events-have-key-events" :> <<"onMouseEnter + onFocus", "onMouseLeave + onBlur", "<div onMouseEnter={show} onFocus={show} onMouseLeave={hide} onBlur={hide}>">>)
  @@ ("jsx-a11y/img-redundant-alt" :> <<"Avoid: alt=\"image of logo\" or alt=\"picture of product\"", "Better: alt=\"Acme Company logo\" or alt=\"Blue t-shirt product\"", "Screen readers already announce \"image\"">>)
  @@ ("jsx-a11y/no-access-key" :> <<"Remove: accessKey=\"s\"", "accessKey conflicts with screen readers and browser shortcuts", "Use visible keyboard shortcuts instead">>)
  @@ ("jsx-a11y/aria-activedescendant-has-tabindex" :> <<"<div role=\"combobox\" aria-activedescendant={activeId} tabIndex={0}>", "Element using aria-activedescendant must be focusable", "Add tabIndex={0} or ensure element is naturally focusable">>)
  @@ ("jsx-a11y/aria-proptypes" :> <<"aria-hidden=\"true\" (not \"yes\" or 1)", "aria-checked=\"true\" or \"false\" (not \"checked\")", "aria-expanded=\"true\" or \"false\" (boolean as string)">>)
  @@ ("jsx-a11y/aria-unsupported-elements" :> <<"Remove ARIA from: <meta>, <html>, <style>, <script>", "These elements do not support ARIA attributes", "Use ARIA only on visible, interactive elements">>)
  @@ ("jsx-a11y/autocomplete-valid" :> <<"<input type=\"email\" autoComplete=\"email\" />", "<input type=\"tel\" autoComplete=\"tel\" />", "See: https://html.spec.whatwg.org/multipage/form-control-infrastructure.html#autofill">>)
  @@ ("jsx-a11y/html-has-lang" :> <<"<html lang=\"en\">", "<html lang=\"es\">", "Helps screen readers use correct pronunciation">>)
  @@ ("jsx-a11y/no-interactive-element-to-noninteractive-role" :> <<"Avoid: <button role=\"article\">", "Do not override button, a, input, etc. with non-interactive roles", "Use semantic HTML as intended">>)
  @@ ("jsx-a11y/no-noninteractive-element-interactions" :> <<"<li onClick={handler}> ? <li role=\"button\" tabIndex={0} onClick={handler}>", "Non-interactive elements need role and keyboard support", "Or use: <button onClick={handler}>Item</button>">>)
  @@ ("jsx-a11y/no-noninteractive-element-to-interactive-role" :> <<"Avoid: <h1 role=\"button\">", "Use interactive elements: <button>, <a>, <input>", "Headings, paragraphs should not be interactive">>)
  @@ ("jsx-a11y/no-noninteractive-tabindex" :> <<"Remove: <div tabIndex={0}> (without interactive role)", "Add: <div role=\"button\" tabIndex={0}>", "Only focusable elements should have tabIndex">>)
  @@ ("jsx-a11y/no-redundant-roles" :> <<"Remove: <button role=\"button\">", "Remove: <nav role=\"navigation\">", "Semantic HTML already has implicit roles">>)
  @@ ("jsx-a11y/role-supports-aria-props" :> <<"Avoid: <div role=\"button\" aria-placeholder=\"...\">", "Check ARIA spec for role-specific properties", "Each role supports only certain ARIA attributes">>)
  @@ ("jsx-a11y/scope" :> <<"<th scope=\"col\">Header</th> // For column headers", "<th scope=\"row\">Label</th> // For row headers", "Do not use scope on <td> elements">>)

\* The rule ids the configured engine can report: the rules of
\* linterConfig.rules that are not 'off'.
enabledRules == {r \in DOMAIN linterRules : linterRules[r] # "off"}

\* ESLint's message for a fatal parsing error has a null ruleId.
NullRule == "#null"

\* The line (1-based) and the place in the line of every token of a string.
positionsOf(lines) ==
  LET rank(S, x) == Cardinality({y \in S : y[1] < x[1] \/ (y[1] = x[1] /\ y[2] <= x[2])})
      at(x) == [line |-> x[1], at |-> x[2], tok |-> lines[x[1]][x[2]]]
      sorted(S) == [p \in 1..Cardinality(S) |-> at(CHOOSE x \in S : rank(S, x) = p)]
  IN sorted(UNION {{<<i, k>> : k \in 1..Len(lines[i])} : i \in 1..Len(lines)})

\* eslint.lintText(content, { filePath }) -> results[0].messages.  The engine
\* is third-party: a "finding" token of the content stands for a construct
\* on which it reports that rule, which it does only for a rule its
\* configuration enables (or for a parsing error).
lintMessages(content) ==
  LET each(hits) ==
        [i \in 1..Len(hits) |->
           [ruleId |-> hits[i].tok.data,
            severity |-> IF hits[i].tok.sev = "error" THEN 2 ELSE 1,
            message |-> <<"lint message", hits[i].tok.data>>,
            line |-> hits[i].line, column |-> hits[i].at,
            endLine |-> hits[i].line, endColumn |-> hits[i].at + 1]]
  IN each(SelectSeq(positionsOf(content.lines), LAMBDA p :
            /\ p.tok.t = "finding" /\ p.tok.name = "eslint"
            /\ p.tok.data \in enabledRules \cup {NullRule}))

\* msg.ruleId && msg.ruleId.startsWith('jsx-a11y/')
isJsxA11y(ruleId) ==
  ruleId # NullRule /\ ruleId \notin {"react/jsx-uses-vars", "react/prop-types",
                                     "react/react-in-jsx-scope", "react/jsx-uses-react"}

\* table[key] || fallback
OrElse(table, key, fallback) == IF key \in DOMAIN table THEN table[key] ELSE fallback

\* The object analyzeFileWithESLint makes of one engine message.
mapMessage(msg) ==
  [ruleId |-> msg.ruleId,
   severity |-> IF msg.severity = 2 THEN "error" ELSE "warning",
   message |-> msg.message,
   description |-> msg.message,
   line |-> msg.line,
   column |-> msg.column,
   endLine |-> msg.endLine,
   endColumn |-> msg.endColumn,
   wcag |-> OrElse(ruleToWCAG, msg.ruleId, <<>>),
   fix |-> OrElse(fixDescriptions, msg.ruleId, "Review WCAG 2.2 documentation"),
   suggestions |-> OrElse(eslintFixSuggestions, msg.ruleId,
                          <<"Review WCAG 2.2 documentation",
                            "Consult accessibility team for guidance">>)]

\* A faulty catch that lets the exception through; C5_EngineThrowCaught
\* must not hold of it.
eslintRethrow(threw, violations) ==
  IF threw
  THEN [outcome |-> "rejected", result |-> <<>>, diag |-> <<>>]
  ELSE [outcome |-> "returned", result |-> violations, diag |-> <<>>]

\* What analyzeFileWithESLint does with an exception of the engine.
eslintCatch(threw, violations) ==
  IF threw
  THEN [outcome |-> "returned", result |-> <<>>, diag |-> <<"ESLint analysis error:">>]
  ELSE [outcome |-> "returned", result |-> violations, diag |-> <<>>]

\* The engine's default ignore patterns: a path with a segment that begins
\* with a dot, or under node_modules, is not linted; lintText then resolves
\* to no result and `results[0]?.messages || []` is [].
isPathIgnored(path) ==
  \E i \in 1..Len(path) :
    /\ i = 1 \/ path[i - 1] = "/"
    /\ \/ path[i] = "." /\ i < Len(path) /\ path[i + 1] \notin {"/", "."}
       \/ path[i] = "node_modules"

\* analyzeFileWithESLint.  engineThrows: new ESLint(...) or lintText throws
\* (a broken installation; lintText also throws for a non-string).
analyzeFileWithESLint(content, filePath, engineThrows) ==
  LET mapped(kept) == [i \in 1..Len(kept) |-> mapMessage(kept[i])]
      run(threw) ==
        eslintCatch(threw,
                    IF threw \/ isPathIgnored(filePath) THEN <<>>
                    ELSE mapped(SelectSeq(lintMessages(content), LAMBDA m : isJsxA11y(m.ruleId))))
  IN run(engineThrows \/ ~IsString(content))

\* The object analyzeFileHybrid makes of a violation of analyzeHTML,
\* analyzeCSS or analyzeJS (the same mapping, written three times).
mapViolation(v) ==
  [ruleId |-> v.ruleId,
   severity |-> v.severity,
   message |-> v.message,
   description |-> v.message,
   line |-> v.line,
   column |-> v.column,
   wcag |-> IF v.wcag = UNDEF THEN <<>> ELSE v.wcag,
   fix |-> IF v.fix # UNDEF
           THEN (IF Len(v.fix) > 0 THEN v.fix[1] ELSE "#undefined")
           ELSE "Review WCAG 2.2 documentation",
   suggestions |-> IF v.fix # UNDEF THEN v.fix ELSE <<"Review WCAG 2.2 documentation">>]

mapAll(violations) == [i \in 1..Len(violations) |-> mapViolation(violations[i])]

\* analyzeCSS / analyzeJS / the regex pre-pass (core/css-analyzer.js,
\* core/js-analyzer.js, core/regex-analyzer.js): a "finding" token addressed
\* to the evaluator is a construct it reports; "#malformed" is input its
\* parser rejects.
Malformed == "#malformed"

evaluatorThrows(eng, content) ==
  \/ ~IsString(content)
  \/ \E i \in 1..Len(content.lines) : \E k \in 1..Len(content.lines[i]) :
       /\ content.lines[i][k].t = "finding"
       /\ content.lines[i][k].name = eng
       /\ content.lines[i][k].data = Malformed

evaluatorFindings(eng, content) ==
  LET each(hits) ==
        [i \in 1..Len(hits) |->
           [ruleId |-> hits[i].tok.data, severity |-> hits[i].tok.sev,
            line |-> hits[i].line, column |-> hits[i].at,
            message |-> <<"finding", hits[i].tok.data>>,
            wcag |-> <<"1.4.3">>, fix |-> <<"See the rule's documentation">>]]
  IN each(SelectSeq(positionsOf(content.lines),
                    LAMBDA p : p.tok.t = "finding" /\ p.tok.name = eng))

analyzeCSS(content) == evaluatorFindings("css", content)
analyzeJS(content) == evaluatorFindings("js", content)
regexAnalyzeFile(content) ==
  IF IsString(content) THEN mapAll(evaluatorFindings("regex", content)) ELSE <<>>

\* The branch analyzeFileHybrid takes.
route(path, content) ==
  LET branch(ext) ==
        CASE ext = Ext("html") \/ ext = Ext("htm") -> "html"
          [] ext = Ext("css") \/ ext = Ext("scss") -> "css"
          [] ext = Ext("js") \/ ext = Ext("ts") ->
               IF hasReactImport(content) \/ hasJSXElement(content) THEN "eslint" ELSE "js"
          [] OTHER -> "eslint"
  IN branch(toLowerCase(extname(path)))

(***************************************************************************)
(* State                                                                   *)
(***************************************************************************)
VARIABLES
  calls,           \* the analyzeFileHybrid calls in flight, by slot
  slots,           \* the slots clients may use (how many calls can overlap)
  pool,            \* the (path, content) requests the clients send
  engineFails,     \* the ESLint installation is broken: the engine throws
  lastLineNumber,  \* the lineNumber the latest analyzeHTML run ended with
  last,            \* the latest call handed back to its caller
  batch,           \* handleCheckAccessibilityBatch: its loop
  pr,              \* analyzePR: its loop and the process exit
  fix,             \* handleSuggestFix: the latest answer of suggest_fix
  setup,           \* scripts/setup-integration.js: its position and the app repository
  lds,             \* LDSIntegration: the component cache and the clock
  manager          \* ConfigManager: its fields, the config file and the subscribers

vars == <<calls, slots, pool, engineFails, lastLineNumber, last, batch, pr,
          fix, setup, lds, manager>>

\* The variables of the analysis server, and those of the other programs.
server == <<calls, slots, pool, engineFails, lastLineNumber, last, batch, pr>>
others == <<fix, setup, lds, manager>>

\* A program that a specification does not run.
Absent == [st |-> "absent"]

OthersAbsent == fix = Absent /\ setup = Absent /\ lds = Absent /\ manager = Absent

NoPath == <<>>

FreeCall ==
  [st |-> "free", owner |-> "none", path |-> NoPath, content |-> Undefined,
   route |-> "", invoked |-> <<>>, threw |-> FALSE, partial |-> <<>>, lineNumber |-> 1,
   outcome |-> "none", result |-> <<>>, diag |-> <<>>,
   response |-> [kind |-> "none", code |-> "", fileType |-> "", total |-> 0,
                 errors |-> 0, warnings |-> 0, wcagCriteria |-> {}]]

NoLast == [path |-> NoPath, content |-> Undefined, outcome |-> "none", result |-> <<>>]

\* The evaluator analyzeFileHybrid calls on a branch.
evaluatorOf(r) ==
  CASE r = "html" -> "analyzeHTML"
    [] r = "css"  -> "analyzeCSS"
    [] r = "js"   -> "analyzeJS"
    [] OTHER      -> "analyzeFileWithESLint"

\* analyzeFileHybrid from its entry to its first suspension: the branch is
\* chosen and the evaluator called; analyzeHTML runs up to its own await.
hybridBegin(path, content, owner, previous) ==
  LET begun(r, sync) ==
        [FreeCall EXCEPT !.st = "awaiting", !.owner = owner, !.path = path,
                         !.content = content, !.route = r,
                         !.invoked = <<evaluatorOf(r)>>,
                         !.threw = sync.threw, !.partial = sync.violations,
                         !.lineNumber = sync.lineNumber]
      branch(r) ==
        begun(r, IF r = "html" THEN analyzeHTMLSync(content, previous)
                 ELSE [threw |-> FALSE, violations |-> <<>>, lineNumber |-> previous])
  IN branch(route(path, content))

\* What analyzeFileHybrid does when the evaluator it awaits has thrown.
hybridOnThrow(diag) == [outcome |-> "rejected", result |-> <<>>, diag |-> diag]

\* analyzeFileHybrid from the resumption of its evaluator to its settlement.
hybridSettle(call, engineThrows) ==
  CASE call.route = "html" ->
         IF call.threw THEN hybridOnThrow(<<>>)
         ELSE [outcome |-> "returned",
               result |-> mapAll(analyzeHTMLRest(call.content, call.partial)),
               diag |-> <<>>]
    [] call.route = "css" ->
         IF evaluatorThrows("css", call.content) THEN hybridOnThrow(<<>>)
         ELSE [outcome |-> "returned", result |-> mapAll(analyzeCSS(call.content)), diag |-> <<>>]
    [] call.route = "js" ->
         IF evaluatorThrows("js", call.content) THEN hybridOnThrow(<<>>)
         ELSE [outcome |-> "returned", result |-> mapAll(analyzeJS(call.content)), diag |-> <<>>]
    [] OTHER -> analyzeFileWithESLint(call.content, call.path, engineThrows)

\* The lineNumber the latest analyzeHTML run ended with, once `call` has begun.
lineNumberAfter(call, previous) == IF call.st = "awaiting" THEN call.lineNumber ELSE previous

\* The analyzer call in slot c settles: its promise resolves or rejects.
Settle(c) ==
  /\ calls[c].st = "awaiting"
  /\ LET settled(s) ==
           [calls EXCEPT ![c].st = "settled", ![c].outcome = s.outcome,
                         ![c].result = s.result, ![c].diag = s.diag]
     IN calls' = settled(hybridSettle(calls[c], engineFails))
  /\ UNCHANGED <<others, slots, pool, engineFails, lastLineNumber, last, batch, pr>>

(***************************************************************************)
(* Inputs                                                                  *)
(***************************************************************************)
A1(a, v) == (a :> v)
A2(a, v, b, w) == (a :> v) @@ (b :> w)
A3(a, v, b, w, c, x) == (a :> v) @@ (b :> w) @@ (c :> x)
El(name) == Open(name, NoAttrs)
Sp == Text(" ")

Paths ==
  { <<"index", ".", "html">>, <<"page", ".", "htm">>, <<"INDEX", ".", "HTML">>,
    <<"site", ".", "css">>, <<"site", ".", "scss">>,
    <<"app", ".", "js">>, <<"app", ".", "ts">>, <<"app", ".", "jsx">>, <<"app", ".", "tsx">>,
    <<"src", "/", "lib", ".", "min", ".", "js">>,
    <<"README", ".", "md">>, <<"tool", ".", "py">>, <<"Makefile">>,
    <<".", "html">>, <<"v1", ".", "js", "/", "notes">>, <<"dir", ".", "css", "/">> }

\* Markup documents; between them they trigger every check of analyzeHTML.
DocClean ==
  Str(<< <<Open("html", A1("lang", "en")), El("head"), El("title"), Text("Home"),
           Close("title"), Close("head")>>,
         <<El("body"), El("main"), El("h1"), Text("Welcome"), Close("h1")>>,
         <<Open("img", A2("src", "logo.png", "alt", "Logo")), Close("main"),
           Close("body"), Close("html")>> >>)

DocImages ==
  Str(<< <<El("html"), El("title"), Sp, Close("title")>>,
         <<Open("img", A1("src", "a.png"))>>,
         <<Open("img", A2("src", "b.png", "alt", "Image of logo"))>>,
         <<Open("img", A2("src", "c.png", "alt", "")), Open("IMG", A1("src", "d.png"))>> >>)

DocForm ==
  Str(<< <<Open("input", A3("type", "email", "placeholder", "you@example.com", "required", Bare))>>,
         <<Open("input", A1("type", "hidden")),
           Open("input", A3("type", "checkbox", "id", "agree", "name", "Phone"))>>,
         <<Open("input", A3("type", "radio", "name", "size", "id", "s")),
           Open("input", A3("type", "radio", "name", "size", "id", "s"))>>,
         <<Open("input", A3("type", "radio", "name", "color", "aria-label", "Red"))>> >>)

DocControls ==
  Str(<< <<El("button"), Close("button"), Open("button", A1("aria-label", "Close")), Close("button")>>,
         <<Open("a", A1("href", "/")), Close("a"),
           Open("a", A2("href", "/more", "target", "_blank")), Sp, Text("Here"), Sp, Close("a")>>,
         <<Open("a", A3("href", "/docs", "target", "_blank", "aria-label", "Docs (opens in new window)")),
           Text("Docs"), Close("a"), Open("iframe", A1("src", "/embed")), Close("iframe")>>,
         <<Open("div", A1("onclick", "go()")), Text("Go"), Close("div"),
           Open("span", A3("onclick", "go()", "role", "button", "tabindex", "5")), Close("span")>> >>)

DocStructure ==
  Str(<< <<Open("html", A1("lang", Bare)), El("h1"), Close("h1"), El("h3"), Text("Part"), Close("h3")>>,
         <<El("table"), El("tr"), El("td"), Text("1"), Close("td"), Close("tr"), Close("table")>>,
         <<El("table"), El("tr"), El("th"), Text("N"), Close("th"), Close("tr"), Close("table")>>,
         <<Open("video", A1("autoplay", Bare)), Close("video"),
           Open("audio", A2("autoplay", Bare, "controls", "controls")),
           Open("track", A1("kind", "captions")), Close("audio")>>,
         <<El("marquee"), Text("Sale"), Close("marquee"),
           Open("p", A1("style", "outline: none")), Close("p")>> >>)

DocRoles ==
  Str(<< <<Open("button", A1("role", "button")), Text("OK"), Close("button")>>,
         <<Open("div", A1("role", "foo")), Close("div"),
           Open("div", A1("role", "slider")), Close("div")>>,
         <<Open("div", A2("role", "checkbox", "aria-checked", "true")), Close("div"),
           Open("div", A1("role", "Main")), Close("div")>> >>)

DocNav ==
  Str(<< <<El("title"), Text("Links"), Close("title"), Open("div", A1("id", "menu"))>>,
         <<Open("a", A1("href", "/a")), Text("A"), Close("a"), Sp,
           Open("a", A1("href", "/b")), Text("B"), Close("a")>>,
         <<Open("a", A1("href", "/c")), Text("link"), Close("a"), Close("div"),
           Open("span", A1("id", "menu")), Close("span")>> >>)

HtmlDocs == {DocClean, DocImages, DocForm, DocControls, DocStructure, DocRoles, DocNav}

\* Script sources with and without the markers of the templating dialect.
JsSamples ==
  { Str(<< <<Text("import"), Sp, Text("React"), Sp, Text("from"), Sp, Text("'react'")>> >>),
    Str(<< <<Text("Import"), Sp, Text("x"), Sp, Text("From"), Sp, Text("\"React\"")>> >>),
    Str(<< <<Text("import"), Sp, Text("{")>>, <<Text("useState")>>,
           <<Text("}"), Sp, Text("from"), Sp, Text("'react'")>> >>),
    Str(<< <<Text("import"), Sp, Text("React")>>, <<Text("from"), Sp, Text("'react'")>> >>),
    Str(<< <<Text("import"), Sp, Text("Vue"), Sp, Text("from"), Sp, Text("'vue'")>> >>),
    Str(<< <<Text("import"), Sp, Text("from"), Sp, Text("'react'")>> >>),
    Str(<< <<Text("import"), Sp, Text("'react'")>> >>),
    Str(<< <<Text("return"), Sp, El("App")>> >>),
    Str(<< <<Text("return"), Text("("), El("Main"), Close("Main"), Text(")")>> >>),
    Str(<< <<Text("return"), Sp, Text("(")>>, <<Sp, El("App")>> >>),
    Str(<< <<Text("return"), Sp, El("div")>> >>),
    Str(<< <<Text("return"), Text("("), Text("("), El("App")>> >>),
    Str(<< <<Text("return"), Sp, Text("x"), Sp, El("App")>> >>),
    Str(<< <<Text("Return"), Sp, El("App")>> >>),
    Str(<< <<Text("x"), Text("=>"), El("App")>> >>),
    Str(<< <<Text("x"), Text("=>")>>, <<El("App")>> >>),
    Str(<< <<Text("x"), Text("=>"), Text("("), El("App")>> >>),
    Str(<< <<Text("x"), Text("=>"), Sp, El("span")>> >>),
    Str(<< <<Text("x"), Sp, El("App")>> >>),
    Str(<< <<Text("document"), Finding("js", "js-div-click", "error")>>,
           <<Finding("js", "js-timer", "info"), Finding("regex", "missing-h1", "warning")>> >>),
    Str(<< <<Text("const"), Finding("js", Malformed, "error")>> >>) }

CssSamples ==
  { Str(<< <<Text("a{"), Finding("css", "outline-none-no-alternative", "error"), Text("}")>>,
           <<Finding("css", "font-size-too-small", "warning"),
             Finding("regex", "outline-none", "error")>> >>),
    Str(<< <<Text("a{"), Finding("css", Malformed, "error")>> >>) }

\* Templating-dialect sources: one construct per rule the engine knows, a
\* rule its configuration does not enable, and a parsing error.
engineRules == DOMAIN linterRules \cup {NullRule, "jsx-a11y/lang"}

JsxSamples ==
  { Str(<< <<Text("return"), Sp, El("App")>>, <<Sp, Finding("eslint", r, "error")>> >>) :
      r \in engineRules }
  \cup
  { Str(<< <<Finding("eslint", "jsx-a11y/alt-text", "warn"),
             Finding("eslint", "jsx-a11y/no-autofocus", "error")>>,
           <<Finding("eslint", NullRule, "error"), Finding("eslint", "jsx-a11y/scope", "error")>> >>) }

Contents ==
  HtmlDocs \cup JsSamples \cup CssSamples \cup JsxSamples
  \cup {Undefined, NumberValue, Str(<< <<>> >>)}

Requests == {[path |-> p, content |-> c] : p \in Paths, c \in Contents}

\* What fs.existsSync / fs.readFileSync find at a path: nothing, or a file.
Missing == [kind |-> "missing", lines |-> << <<>> >>]
DiskFiles == {Missing, DocImages}

(***************************************************************************)
(* The check_accessibility tool: src/mcp-server.js                         *)
(***************************************************************************)
MaxCalls == 2

\* handleCheckAccessibility: the fileType it reports for a path.
fileTypeOf(path) ==
  LET type(ext) ==
        CASE ext = Ext("jsx") -> "jsx"
          [] ext = Ext("tsx") -> "tsx"
          [] ext = Ext("js") -> "js"
          [] ext = Ext("ts") -> "ts"
          [] ext = Ext("html") \/ ext = Ext("htm") -> "html"
          [] ext = Ext("css") -> "css"
          [] ext = Ext("scss") -> "scss"
          [] OTHER -> "unknown"
  IN type(toLowerCase(extname(path)))

\* violations.filter(v => v.severity === sev).length
countSeverity(violations, sev) ==
  Cardinality({i \in 1..Len(violations) : violations[i].severity = sev})

\* [...new Set(violations.flatMap(v => v.wcag || []))]
wcagCriteriaOf(violations) ==
  UNION {{violations[i].wcag[j] : j \in 1..Len(violations[i].wcag)} : i \in 1..Len(violations)}

McpError(code) ==
  [kind |-> "McpError", code |-> code, fileType |-> "", total |-> 0,
   errors |-> 0, warnings |-> 0, wcagCriteria |-> {}]

\* handleCheckAccessibility up to its await: content, or the file on disk
\* when content is falsy, goes to analyzeFileHybrid; a missing file is an
\* InvalidParams error.
CheckAccessibility(c, req) ==
  /\ c \in slots
  /\ req \in pool
  /\ calls[c].st = "free"
  /\ IF Truthy(req.content)
     THEN calls' = [calls EXCEPT ![c] =
                      hybridBegin(req.path, req.content, "tool", lastLineNumber)]
     ELSE \E disk \in DiskFiles :
            IF disk = Missing
            THEN calls' = [calls EXCEPT ![c] =
                             [FreeCall EXCEPT !.st = "responded", !.owner = "tool",
                                              !.path = req.path, !.content = req.content,
                                              !.response = McpError("InvalidParams")]]
            ELSE calls' = [calls EXCEPT ![c] =
                             hybridBegin(req.path, disk, "tool", lastLineNumber)]
  /\ lastLineNumber' = lineNumberAfter(calls'[c], lastLineNumber)
  /\ UNCHANGED <<others, slots, pool, engineFails, last, batch, pr>>

\* handleCheckAccessibility after its await, and the catch of the
\* CallToolRequestSchema handler around it.
ToolRespond(c) ==
  /\ calls[c].st = "settled"
  /\ calls[c].owner = "tool"
  /\ calls' = [calls EXCEPT ![c].st = "responded", ![c].response =
        IF calls[c].outcome = "returned"
        THEN [kind |-> "result", code |-> "", fileType |-> fileTypeOf(calls[c].path),
              total |-> Len(calls[c].result),
              errors |-> countSeverity(calls[c].result, "error"),
              warnings |-> countSeverity(calls[c].result, "warning"),
              wcagCriteria |-> wcagCriteriaOf(calls[c].result)]
        ELSE McpError("InternalError")]
  /\ UNCHANGED <<others, slots, pool, engineFails, lastLineNumber, last, batch, pr>>

\* The response is sent; the client may send its next request.
Release(c) ==
  /\ calls[c].st = "responded"
  /\ last' = [path |-> calls[c].path, content |-> calls[c].content,
              outcome |-> calls[c].outcome, result |-> calls[c].result]
  /\ calls' = [calls EXCEPT ![c] = FreeCall]
  /\ UNCHANGED <<others, slots, pool, engineFails, lastLineNumber, batch, pr>>

IdleBatch ==
  [st |-> "idle", files |-> <<>>, i |-> 1, results |-> <<>>,
   summary |-> [filesChecked |-> 0, filesWithViolations |-> 0, totalViolations |-> 0,
                totalErrors |-> 0, totalWarnings |-> 0]]

IdlePR ==
  [st |-> "idle", changed |-> <<>>, relevant |-> <<>>, i |-> 1, fileResults |-> <<>>,
   totalViolations |-> 0, totalErrors |-> 0, totalWarnings |-> 0,
   exitCode |-> -1, written |-> FALSE,
   results |-> [analyzedFiles |-> 0, filesWithViolations |-> 0,
                summary |-> [totalViolations |-> 0, errors |-> 0, warnings |-> 0],
                files |-> <<>>]]

InitCommon ==
  /\ calls = [c \in 1..MaxCalls |-> FreeCall]
  /\ engineFails \in BOOLEAN
  /\ lastLineNumber = 1
  /\ last = NoLast
  /\ batch = IdleBatch
  /\ pr = IdlePR
  /\ OthersAbsent

\* One client sending one request over and over.
Init ==
  /\ InitCommon
  /\ slots = {1}
  /\ pool \in {{r} : r \in Requests}

Next ==
  \/ \E c \in 1..MaxCalls : \E req \in pool : CheckAccessibility(c, req)
  \/ \E c \in 1..MaxCalls : Settle(c)
  \/ \E c \in 1..MaxCalls : ToolRespond(c)
  \/ \E c \in 1..MaxCalls : Release(c)

Spec == Init /\ [][Next]_vars

\* Two or more clients whose requests overlap: while one call awaits its
\* evaluator, others start, settle and are answered.
ConcRequests ==
  { [path |-> <<"index", ".", "html">>, content |-> DocControls],
    [path |-> <<"app", ".", "jsx">>,
     content |-> Str(<< <<Finding("eslint", "jsx-a11y/alt-text", "error")>> >>)],
    [path |-> <<"app", ".", "js">>,
     content |-> Str(<< <<Text("document"), Finding("js", "js-div-click", "error")>> >>)],
    [path |-> <<"index", ".", "html">>, content |-> NumberValue] }

InitConc ==
  /\ InitCommon
  /\ slots = 1..MaxCalls
  /\ pool \in {{r1, r2} : r1 \in ConcRequests, r2 \in ConcRequests}

SpecConc == InitConc /\ [][Next]_vars

\* Different files evaluated in parallel: one task per file, all in
\* flight at once, settling in any order.
ParRequests ==
  { [path |-> <<"index", ".", "html">>, content |-> DocImages],
    [path |-> <<"page", ".", "htm">>, content |-> DocNav],
    [path |-> <<"app", ".", "jsx">>,
     content |-> Str(<< <<Finding("eslint", "jsx-a11y/alt-text", "error")>> >>)] }

InitPar ==
  /\ InitCommon
  /\ slots = 1..MaxCalls
  /\ pool \in {p \in SUBSET ParRequests : Cardinality(p) = 2}

SpecPar == InitPar /\ [][Next]_vars

(***************************************************************************)
(* The check_accessibility_batch tool: src/mcp-server.js                   *)
(***************************************************************************)
MaxFiles == 2

\* The tuples of at most n elements of S.
SeqsUpTo(S, n) == UNION {[1..m -> S] : m \in 0..n}

BatchRequests ==
  { [path |-> <<"index", ".", "html">>, content |-> DocImages],
    [path |-> <<"index", ".", "html">>, content |-> DocClean],
    [path |-> <<"app", ".", "jsx">>,
     content |-> Str(<< <<Finding("eslint", "jsx-a11y/alt-text", "error"),
                          Finding("eslint", "jsx-a11y/no-autofocus", "warn")>> >>)],
    [path |-> <<"site", ".", "css">>,
     content |-> Str(<< <<Finding("css", "font-size-too-small", "warning")>> >>)],
    [path |-> <<"site", ".", "css">>,
     content |-> Str(<< <<Finding("css", Malformed, "error")>> >>)],
    [path |-> <<"page", ".", "htm">>, content |-> Undefined] }

\* The entry handleCheckAccessibilityBatch pushes for a file: the try branch
\* for a resolved call, the catch branch for a rejected one.
batchEntry(file, call) ==
  IF call.outcome = "returned"
  THEN [filePath |-> file.path, violations |-> call.result,
        summary |-> [totalViolations |-> Len(call.result),
                     errors |-> countSeverity(call.result, "error"),
                     warnings |-> countSeverity(call.result, "warning")]]
  ELSE [filePath |-> file.path, error |-> "error.message", violations |-> <<>>]

\* results.reduce((sum, r) => sum + (r.summary?.[field] || 0), 0)
sumOver(results, field) ==
  SumSeq([i \in 1..Len(results) |->
            IF "summary" \in DOMAIN results[i] THEN results[i].summary[field] ELSE 0])

overallSummary(files, results) ==
  [filesChecked |-> Len(files),
   filesWithViolations |-> Cardinality({i \in 1..Len(results) : Len(results[i].violations) > 0}),
   totalViolations |-> sumOver(results, "totalViolations"),
   totalErrors |-> sumOver(results, "errors"),
   totalWarnings |-> sumOver(results, "warnings")]

\* The for loop of the handler from file i on, up to its next await or, after
\* the last file, to the return.
batchLoop(b, i) ==
  /\ IF i <= Len(b.files)
     THEN /\ batch' = [b EXCEPT !.st = "awaiting", !.i = i]
          /\ calls' = [calls EXCEPT ![1] =
                         hybridBegin(b.files[i].path, b.files[i].content, "batch", lastLineNumber)]
     ELSE /\ batch' = [b EXCEPT !.st = "done", !.i = i,
                                !.summary = overallSummary(b.files, b.results)]
          /\ calls' = [calls EXCEPT ![1] = FreeCall]
  /\ lastLineNumber' = lineNumberAfter(calls'[1], lastLineNumber)

\* handleCheckAccessibilityBatch is called with args.files.
BatchStart(files) ==
  /\ batch.st = "idle"
  /\ pr.st = "idle"
  /\ batchLoop([batch EXCEPT !.files = files], 1)
  /\ UNCHANGED <<others, slots, pool, engineFails, last, pr>>

\* The awaited call of file i has settled: its entry is pushed and the loop
\* goes on.
BatchResume ==
  /\ batch.st = "awaiting"
  /\ calls[1].st = "settled"
  /\ batchLoop([batch EXCEPT !.results =
                  Append(@, batchEntry(batch.files[batch.i], calls[1]))], batch.i + 1)
  /\ UNCHANGED <<others, slots, pool, engineFails, last, pr>>

(***************************************************************************)
(* analyzePR: src/analyze-pr-mcp.js                                        *)
(***************************************************************************)
\* A path git lists that is a directory (a submodule) or cannot be read:
\* fs.existsSync finds it, fs.readFileSync throws.
Unreadable == [kind |-> "unreadable", lines |-> << <<>> >>]

ChangedFiles ==
  { [path |-> <<"index", ".", "html">>, disk |-> DocImages],
    [path |-> <<"page", ".", "htm">>, disk |-> DocClean],
    [path |-> <<"app", ".", "jsx">>,
     disk |-> Str(<< <<Finding("eslint", "jsx-a11y/alt-text", "error")>> >>)],
    [path |-> <<"app", ".", "js">>, disk |-> Unreadable],
    [path |-> <<"site", ".", "css">>, disk |-> Missing],
    [path |-> <<"site", ".", "scss">>,
     disk |-> Str(<< <<Finding("css", Malformed, "error")>> >>)],
    [path |-> <<"README", ".", "md">>, disk |-> DocImages] }

\* /\.(jsx?|tsx?|html?|css|scss)$/i.test(f)
relevantName(path) ==
  /\ Len(path) >= 2
  /\ path[Len(path) - 1] = "."
  /\ Lower(path[Len(path)]) \in {"js", "jsx", "ts", "tsx", "htm", "html", "css", "scss"}

\* changedFiles.filter(...): a relevant name that exists on disk.
relevantFiles(changed) ==
  SelectSeq(changed, LAMBDA f : relevantName(f.path) /\ f.disk # Missing)

prResults(p) ==
  [analyzedFiles |-> Len(p.relevant), filesWithViolations |-> Len(p.fileResults),
   summary |-> [totalViolations |-> p.totalViolations, errors |-> p.totalErrors,
                warnings |-> p.totalWarnings],
   files |-> p.fileResults]

\* The outer catch of analyzePR: process.exit(1), nothing written.
prExit1(p) == [p EXCEPT !.st = "exited", !.exitCode = 1]

\* The for loop of analyzePR from file i on, up to its next await or to the
\* exit of the process.
prLoop(p, i) ==
  /\ IF i > Len(p.relevant)
     THEN /\ pr' = [p EXCEPT !.st = "exited", !.i = i, !.exitCode = 0, !.written = TRUE,
                             !.results = prResults(p)]
          /\ calls' = [calls EXCEPT ![1] = FreeCall]
     ELSE IF p.relevant[i].disk = Unreadable
     THEN /\ pr' = prExit1([p EXCEPT !.i = i])
          /\ calls' = [calls EXCEPT ![1] = FreeCall]
     ELSE /\ pr' = [p EXCEPT !.st = "awaiting", !.i = i]
          /\ calls' = [calls EXCEPT ![1] =
                         hybridBegin(p.relevant[i].path, p.relevant[i].disk, "pr", lastLineNumber)]
  /\ lastLineNumber' = lineNumberAfter(calls'[1], lastLineNumber)

\* analyzePR starts with the changed files git reports (a Set: no path twice).
PRStart(changed) ==
  /\ pr.st = "idle"
  /\ batch.st = "idle"
  /\ \A i, j \in 1..Len(changed) : changed[i].path = changed[j].path => i = j
  /\ prLoop([pr EXCEPT !.changed = changed, !.relevant = relevantFiles(changed)], 1)
  /\ UNCHANGED <<others, slots, pool, engineFails, last, batch>>

\* The awaited call of file i has settled: a rejection reaches the outer
\* catch; otherwise the totals grow, a file with violations is pushed and
\* the loop goes on.
PRResume ==
  /\ pr.st = "awaiting"
  /\ calls[1].st = "settled"
  /\ LET pushed(violations, errors, warnings) ==
           [pr EXCEPT !.totalViolations = @ + Len(violations),
                      !.totalErrors = @ + errors,
                      !.totalWarnings = @ + warnings,
                      !.fileResults =
                         IF Len(violations) > 0
                         THEN Append(@, [filePath |-> pr.relevant[pr.i].path,
                                         violations |-> violations,
                                         summary |-> [totalViolations |-> Len(violations),
                                                      errors |-> errors,
                                                      warnings |-> warnings]])
                         ELSE @]
     IN IF calls[1].outcome = "rejected"
        THEN /\ pr' = prExit1(pr)
             /\ calls' = [calls EXCEPT ![1] = FreeCall]
             /\ UNCHANGED lastLineNumber
        ELSE prLoop(pushed(calls[1].result, countSeverity(calls[1].result, "error"),
                           countSeverity(calls[1].result, "warning")),
                    pr.i + 1)
  /\ UNCHANGED <<others, slots, pool, engineFails, last, batch>>

InitBatch ==
  /\ InitCommon
  /\ slots = {1}
  /\ pool = {}

NextBatch ==
  \/ \E files \in SeqsUpTo(BatchRequests, MaxFiles) : BatchStart(files)
  \/ BatchResume
  \/ \E changed \in SeqsUpTo(ChangedFiles, MaxFiles) : PRStart(changed)
  \/ PRResume
  \/ \E c \in 1..MaxCalls : Settle(c)

SpecBatch == InitBatch /\ [][NextBatch]_vars

(***************************************************************************)
(* Properties                                                              *)
(***************************************************************************)
Called == {c \in 1..MaxCalls : calls[c].route # ""}
Settled == {c \in Called : calls[c].st \in {"settled", "responded"}}
Returned == {c \in Settled : calls[c].outcome = "returned"}

RecognizedExts ==
  {Ext("html"), Ext("htm"), Ext("css"), Ext("scss"),
   Ext("js"), Ext("jsx"), Ext("ts"), Ext("tsx")}
Recognized(path) == toLowerCase(extname(path)) \in RecognizedExts

\* C1: for a recognized extension the dispatcher also runs the regex
\* pre-pass, and the list it returns is the pre-pass violations followed by
\* the violations of the specialized evaluator.
C1_PrePassConcatenated ==
  \A c \in Returned :
    Recognized(calls[c].path) =>
      /\ \E n \in 1..Len(calls[c].invoked) : calls[c].invoked[n] = "regexAnalyzeFile"
      /\ calls[c].result =
           regexAnalyzeFile(calls[c].content) \o hybridSettle(calls[c], engineFails).result

\* C2: analyzeFileHybrid never rejects: whatever the evaluator does, the
\* call settles by returning a list.
C2_NeverRejects == \A c \in Settled : calls[c].outcome = "returned"

\* C3: for an extension that is not recognized no evaluator is invoked and
\* the call returns the empty list.
C3_UnrecognizedIsNoOp ==
  \A c \in Called :
    ~Recognized(calls[c].path) =>
      /\ calls[c].invoked = <<>>
      /\ c \in Settled => calls[c].outcome = "returned" /\ calls[c].result = <<>>

IsWs(tok) == tok.t = "text" /\ tok.data \in {" ", "\n"}
WordLower(tok, w) == tok.t = "text" /\ Lower(tok.data) = w
IsReactString(tok) == tok.t = "text" /\ Lower(tok.data) \in {"'react'", "\"react\""}
IsCapitalTag(tok) == tok.t = "open" /\ StartsUpper(tok.name)

\* `from`, whitespace, and the quoted module name react, starting at f.
FromReact(T, f) ==
  /\ WordLower(T[f], "from")
  /\ \E r \in (f + 2)..Len(T) :
       IsReactString(T[r]) /\ \A j \in (f + 1)..(r - 1) : IsWs(T[j])

\* An import declaration of react whose clause may span several lines.
ReactImport(T) ==
  \E i, f \in 1..Len(T) :
    /\ i + 2 < f
    /\ WordLower(T[i], "import") /\ IsWs(T[i + 1]) /\ IsWs(T[f - 1])
    /\ FromReact(T, f)

\* The same with nothing but whitespace, then text free of line breaks,
\* then whitespace between `import` and `from`.
ReactImportOnOneLine(T) ==
  \E i, f \in 1..Len(T) :
    /\ i + 2 < f
    /\ WordLower(T[i], "import")
    /\ FromReact(T, f)
    /\ \E a \in (i + 1)..(f - 2) : \E b \in (a + 1)..(f - 1) :
         /\ \A j \in (i + 1)..a : IsWs(T[j])
         /\ \A j \in (a + 1)..(b - 1) : T[j] # NL
         /\ \A j \in b..(f - 1) : IsWs(T[j])

\* `return`, then at most one `(` among whitespace, then a capitalized tag.
ReturnsCapitalTag(T) ==
  \E i, u \in 1..Len(T) :
    /\ i < u
    /\ T[i].t = "text" /\ T[i].data = "return"
    /\ IsCapitalTag(T[u])
    /\ \A j \in (i + 1)..(u - 1) : IsWs(T[j]) \/ (T[j].t = "text" /\ T[j].data = "(")
    /\ Cardinality({j \in (i + 1)..(u - 1) : ~IsWs(T[j])}) <= 1

\* `=>`, whitespace, a capitalized tag.
ArrowCapitalTag(T) ==
  \E i, u \in 1..Len(T) :
    /\ i < u
    /\ T[i].t = "text" /\ T[i].data = "=>"
    /\ IsCapitalTag(T[u])
    /\ \A j \in (i + 1)..(u - 1) : IsWs(T[j])

\* The evaluator the classification rules name for a recognized extension,
\* given whether the content holds a React import.
ExpectedEvaluator(ext, T, reactImport) ==
  CASE ext \in {Ext("html"), Ext("htm")} -> "analyzeHTML"
    [] ext \in {Ext("css"), Ext("scss")} -> "analyzeCSS"
    [] ext \in {Ext("jsx"), Ext("tsx")} -> "analyzeFileWithESLint"
    [] OTHER -> IF reactImport \/ ReturnsCapitalTag(T) \/ ArrowCapitalTag(T)
                THEN "analyzeFileWithESLint" ELSE "analyzeJS"

EngineThrew(c) == engineFails \/ ~IsString(calls[c].content)

\* C5: when the engine throws, analyzeFileWithESLint logs a diagnostic and
\* returns the empty list; a call routed to the delegate never rejects.
C5_EngineThrowCaught ==
  \A c \in Settled :
    calls[c].route = "eslint" =>
      /\ calls[c].outcome = "returned"
      /\ EngineThrew(c) => calls[c].result = <<>> /\ calls[c].diag # <<>>
      /\ ~EngineThrew(c) => calls[c].diag = <<>>

\* The engine threw on content it would have reported on, and the call
\* returned the empty list with a diagnostic.
C5_Witness ==
  \E c \in Settled :
    /\ calls[c].route = "eslint"
    /\ engineFails
    /\ IsString(calls[c].content)
    /\ Len(lintMessages(calls[c].content)) > 0
    /\ calls[c].outcome = "returned" /\ calls[c].result = <<>> /\ calls[c].diag # <<>>

\* C6: a failure on one file of a batch is not fatal: all files of the batch
\* are still evaluated and reported, the failing one with an empty list;
\* for handleCheckAccessibilityBatch and for analyzePR.
C6_BatchFailureNotFatal ==
  /\ batch.st = "done" =>
       /\ Len(batch.results) = Len(batch.files)
       /\ \A i \in 1..Len(batch.files) :
            /\ batch.results[i].filePath = batch.files[i].path
            /\ "error" \in DOMAIN batch.results[i] => batch.results[i].violations = <<>>
  /\ pr.st = "exited" =>
       /\ pr.exitCode = 0
       /\ pr.written
       /\ pr.i > Len(pr.relevant)
       /\ pr.results.analyzedFiles = Len(pr.relevant)

\* The distinct WCAG references of the violations of all entries.
wcagAcross(results) ==
  UNION {wcagCriteriaOf(results[i].violations) : i \in 1..Len(results)}

\* C7: the batch returns one result per input file and a summary: the file
\* count, the files with violations, the violation, error and warning
\* totals, and the distinct WCAG references triggered across the files.
C7_BatchSummary ==
  /\ batch.st = "done" =>
       /\ Len(batch.results) = Len(batch.files)
       /\ batch.summary.filesChecked = Len(batch.files)
       /\ batch.summary.filesWithViolations =
            Cardinality({i \in 1..Len(batch.results) : Len(batch.results[i].violations) > 0})
       /\ batch.summary.totalViolations =
            SumSeq([i \in 1..Len(batch.results) |-> Len(batch.results[i].violations)])
       /\ batch.summary.totalErrors =
            SumSeq([i \in 1..Len(batch.results) |->
                      countSeverity(batch.results[i].violations, "error")])
       /\ batch.summary.totalWarnings =
            SumSeq([i \in 1..Len(batch.results) |->
                      countSeverity(batch.results[i].violations, "warning")])
       /\ "wcagCriteria" \in DOMAIN batch.summary
       /\ batch.summary.wcagCriteria = wcagAcross(batch.results)
  /\ pr.written =>
       /\ Len(pr.results.files) = Len(pr.relevant)
       /\ "wcagCriteria" \in DOMAIN pr.results.summary

\* The fields of the object analyzeFileHybrid makes of a violation of
\* analyzeHTML, analyzeCSS and analyzeJS.
ViolationFields ==
  {"ruleId", "severity", "message", "description", "line", "column", "wcag", "fix",
   "suggestions"}

\* C8: every element of a returned list has the shared shape: the common
\* fields and no other, and a severity among error, warning and info.
C8_SharedShape ==
  \A c \in Returned :
    \A i \in 1..Len(calls[c].result) :
      /\ DOMAIN calls[c].result[i] = ViolationFields
      /\ calls[c].result[i].severity \in {"error", "warning", "info"}

\* v.ruleId has entries in the tables and v carries them.
FromTables(v, wcagTable, suggestionTable) ==
  /\ v.ruleId \in DOMAIN wcagTable
  /\ v.ruleId \in DOMAIN suggestionTable
  /\ v.wcag = wcagTable[v.ruleId]
  /\ v.suggestions = suggestionTable[v.ruleId]
  /\ Len(v.suggestions) >= 1

C10_Deterministic ==
  /\ \A c, d \in Settled :
       calls[c].path = calls[d].path /\ calls[c].content = calls[d].content =>
         calls[c].outcome = calls[d].outcome /\ calls[c].result = calls[d].result
  /\ \A c \in Settled :
       last.outcome # "none" /\ calls[c].path = last.path /\ calls[c].content = last.content =>
         calls[c].outcome = last.outcome /\ calls[c].result = last.result

\* Two overlapping evaluations of one markup document have returned
\* violations, after a different file was answered.
C10_Witness ==
  \E c, d \in Returned :
    /\ c # d
    /\ calls[c].route = "html"
    /\ calls[c].path = calls[d].path /\ calls[c].content = calls[d].content
    /\ Len(calls[c].result) >= 2
    /\ last.outcome = "returned" /\ last.path # calls[c].path /\ Len(last.result) >= 1

\* What analyzeFileHybrid(content, path) settles with when no other call
\* runs in the process.
RunAlone(path, content) ==
  hybridSettle(hybridBegin(path, content, "tool", 1), engineFails)

\* The settlement of call c is that of the same call run alone.
AsAlone(c, alone) ==
  calls[c].outcome = alone.outcome /\ calls[c].result = alone.result

\* C11: calls in flight at the same time, interleaved at their awaits in
\* any order, each settle as they would alone: no state crosses calls.
C11_NoSharedState ==
  \A c \in Settled : AsAlone(c, RunAlone(calls[c].path, calls[c].content))

\* A component was in flight before a markup document started and is
\* still in flight when the document, several lines long, has returned.
C11_Witness ==
  \E c \in Returned : \E d \in Called :
    /\ calls[c].route = "html" /\ calls[c].lineNumber > 1 /\ Len(calls[c].result) >= 2
    /\ calls[d].st = "awaiting" /\ calls[d].route = "eslint" /\ calls[d].lineNumber = 1
    /\ calls[d].path # calls[c].path
    /\ last = NoLast

(***************************************************************************)
(* Markup documents drawn from bounded sets                                *)
(***************************************************************************)
\* The document whose i-th line is lines[i]; the empty string has one line.
DocOf(lines) == IF lines = <<>> THEN Str(<< <<>> >>) ELSE Str(lines)

\* One client sending one markup document, drawn from docs, over and over.
InitMarkup(docs) ==
  /\ calls = [c \in 1..MaxCalls |-> FreeCall]
  /\ engineFails = FALSE
  /\ lastLineNumber = 1
  /\ last = NoLast
  /\ batch = IdleBatch
  /\ pr = IdlePR
  /\ OthersAbsent
  /\ slots = {1}
  /\ pool \in {{[path |-> <<"index", ".", "html">>, content |-> d]} : d \in docs}

\* The markup calls that have returned, and the number of violations of a
\* rule in the list of call c.
MarkupReturned == {c \in Returned : calls[c].route = "html"}
Count(c, ruleId) ==
  Cardinality({i \in 1..Len(calls[c].result) : calls[c].result[i].ruleId = ruleId})

\* The opening tags named `name` among the tokens of the content of call c.
TagsOf(c, names) ==
  LET in(T) == {k \in 1..Len(T) : T[k].t = "open" /\ Lower(T[k].name) \in names}
  IN in(Flatten(calls[c].content.lines))
TokenOf(c, k) == Flatten(calls[c].content.lines)[k]

MaxImages == 3

\* <img> without alt, with alt="Logo", alt="image of logo", alt="" and a
\* valueless alt, one per line.
ImgLines ==
  { <<Open("img", A1("src", "logo.png"))>>,
    <<Open("img", A2("src", "logo.png", "alt", "Logo"))>>,
    <<Open("img", A2("src", "logo.png", "alt", "image of logo"))>>,
    <<Open("img", A2("src", "logo.png", "alt", ""))>>,
    <<Open("IMG", A2("src", "logo.png", "alt", Bare))>> }

ImageDocs == {DocOf(ls) : ls \in SeqsUpTo(ImgLines, MaxImages)}

InitImages == InitMarkup(ImageDocs)

SpecImages == InitImages /\ [][Next]_vars

\* C12: an <img> without alt gives one img-missing-alt; with alt="Logo"
\* neither img-missing-alt nor img-redundant-alt; with alt="image of logo"
\* no img-missing-alt and exactly one img-redundant-alt, a warning; with
\* alt="" neither.
C12_AltTextRoundTrip ==
  \A c \in MarkupReturned :
    (\A k \in TagsOf(c, {"img"}) :
       "alt" \in DOMAIN TokenOf(c, k).attrs =>
         TokenOf(c, k).attrs["alt"] \in {"Logo", "image of logo", "", Bare}) =>
      /\ Count(c, "img-missing-alt") =
           Cardinality({k \in TagsOf(c, {"img"}) : "alt" \notin DOMAIN TokenOf(c, k).attrs})
      /\ Count(c, "img-redundant-alt") =
           Cardinality({k \in TagsOf(c, {"img"}) :
                          /\ "alt" \in DOMAIN TokenOf(c, k).attrs
                          /\ TokenOf(c, k).attrs["alt"] = "image of logo"})
      /\ \A i \in 1..Len(calls[c].result) :
           calls[c].result[i].ruleId = "img-redundant-alt" =>
             calls[c].result[i].severity = "warning"

\* A document with an <img> of each kind has been answered with one
\* img-missing-alt and one img-redundant-alt.
C12_Witness ==
  \E c \in MarkupReturned :
    /\ Cardinality(TagsOf(c, {"img"})) = 3
    /\ \E k \in TagsOf(c, {"img"}) : "alt" \notin DOMAIN TokenOf(c, k).attrs
    /\ \E k \in TagsOf(c, {"img"}) :
         "alt" \in DOMAIN TokenOf(c, k).attrs /\ TokenOf(c, k).attrs["alt"] = "Logo"
    /\ \E k \in TagsOf(c, {"img"}) :
         "alt" \in DOMAIN TokenOf(c, k).attrs /\ TokenOf(c, k).attrs["alt"] = "image of logo"
    /\ Count(c, "img-missing-alt") = 1 /\ Count(c, "img-redundant-alt") = 1

MaxHeadings == 3

HeadingNames == <<"h1", "h2", "h3", "h4", "h5", "h6">>
LevelOf(name) == CHOOSE n \in 1..6 : HeadingNames[n] = Lower(name)

\* An indented line with a heading, bare, upper case or inside a section,
\* or with a paragraph that has an id.
HeadingLines ==
  {<<Sp, El(HeadingNames[n]), Text("Part"), Close(HeadingNames[n])>> : n \in {1, 2, 3, 4, 6}}
    \cup { <<Sp, El("section"), El("H3"), Text("Part"), Close("H3"), Close("section")>>,
           <<Sp, Open("p", A1("id", "x")), Text("Text"), Close("p")>> }

HeadingDocs == {DocOf(ls) : ls \in SeqsUpTo(HeadingLines, MaxHeadings)}

InitHeadings == InitMarkup(HeadingDocs)

SpecHeadings == InitHeadings /\ [][Next]_vars

Headings(c) == TagsOf(c, {"h1", "h2", "h3", "h4", "h5", "h6"})

\* Heading k of call c skips a level: it has a heading before it and the
\* nearest one is more than one level above.
SkipsLevel(c, k) ==
  \E p \in Headings(c) :
    /\ p < k
    /\ \A q \in Headings(c) : q < k => q <= p
    /\ LevelOf(TokenOf(c, k).name) > LevelOf(TokenOf(c, p).name) + 1

\* C13: the markup evaluator emits one heading-hierarchy violation for each
\* heading whose level exceeds that of the heading just before it by more
\* than one, and no other.
C13_HeadingMonotonicity ==
  \A c \in MarkupReturned :
    Count(c, "heading-hierarchy") =
      Cardinality({k \in Headings(c) : SkipsLevel(c, k)})

\* Three headings, the last of which alone skips a level (h1, h2, h4), have
\* been answered with one heading-hierarchy violation.
C13_Witness ==
  \E c \in MarkupReturned :
    /\ Cardinality(Headings(c)) = 3
    /\ Cardinality({k \in Headings(c) : SkipsLevel(c, k)}) = 1
    /\ \E k \in Headings(c) :
         /\ SkipsLevel(c, k) /\ LevelOf(TokenOf(c, k).name) = 4
         /\ \A q \in Headings(c) : q <= k
    /\ Count(c, "heading-hierarchy") = 1

MaxIds == 3

\* Elements with the ids x and y, an empty id, a valueless id and none.
IdLines ==
  { <<Open("div", A1("id", "x")), Close("div")>>,
    <<Open("span", A1("id", "x")), Text("Text"), Close("span")>>,
    <<Open("p", A1("id", "y")), Close("p")>>,
    <<Open("ul", A1("id", "y")), Open("li", A1("id", "x")), Close("li"), Close("ul")>>,
    <<Open("div", A1("id", "")), Close("div"), Open("div", A1("id", Bare)), Close("div")>>,
    <<El("div"), Close("div")>> }

IdDocs == {DocOf(ls) : ls \in SeqsUpTo(IdLines, MaxIds)}

InitIds == InitMarkup(IdDocs)

SpecIds == InitIds /\ [][Next]_vars

\* The elements of call c that carry the id value v.
Carrying(c, v) ==
  LET in(T) == {k \in 1..Len(T) :
                  /\ T[k].t = "open" /\ "id" \in DOMAIN T[k].attrs
                  /\ T[k].attrs["id"] = v}
  IN in(Flatten(calls[c].content.lines))

\* The non-empty id values of call c.
IdValues(c) ==
  LET in(T) == {T[k].attrs["id"] : k \in {j \in 1..Len(T) :
                                            T[j].t = "open" /\ "id" \in DOMAIN T[j].attrs}}
  IN in(Flatten(calls[c].content.lines)) \ {"", Bare}

\* The duplicate-id violations of call c that name the id value v.
DuplicatesOf(c, v) ==
  {i \in 1..Len(calls[c].result) :
     /\ calls[c].result[i].ruleId = "duplicate-id"
     /\ calls[c].result[i].message[2] = v}

ElementLine(c, k) ==
  LET start(lines, i) == SumSeq([j \in 1..(i - 1) |-> Len(lines[j]) + 1])
      in(lines) == CHOOSE i \in 1..Len(lines) :
                     start(lines, i) < k /\ k <= start(lines, i) + Len(lines[i])
  IN in(calls[c].content.lines)

\* C15: a heading-hierarchy violation carries the line of the later heading
\* of a skipping pair, and a duplicate-id violation the line of a second or
\* further element that carries the id.
C15_PostTraversalLines ==
  \A c \in MarkupReturned :
    \A i \in 1..Len(calls[c].result) :
      /\ calls[c].result[i].ruleId = "heading-hierarchy" =>
           \E k \in Headings(c) :
             SkipsLevel(c, k) /\ calls[c].result[i].line = ElementLine(c, k)
      /\ calls[c].result[i].ruleId = "duplicate-id" =>
           \E k, j \in Carrying(c, calls[c].result[i].message[2]) :
             j < k /\ calls[c].result[i].line = ElementLine(c, k)

MaxControls == 2

\* Radio inputs inside and outside a fieldset; text inputs with and without
\* a label; autoplaying media; links that open a new window.  One per line.
ControlLines ==
  { <<El("fieldset"), El("legend"), Text("Size"), Close("legend"),
      Open("input", A2("type", "radio", "name", "size")),
      Open("input", A2("type", "radio", "name", "size")), Close("fieldset")>>,
    <<Open("input", A3("type", "radio", "name", "size", "aria-label", "Small"))>>,
    <<Open("input", A3("type", "radio", "name", "color", "aria-label", "Red"))>>,
    <<Open("label", A1("for", "user")), Text("Username"), Close("label"),
      Open("input", A3("type", "text", "id", "user", "autocomplete", "username"))>>,
    <<Open("input", A3("type", "text", "id", "user", "autocomplete", "username"))>>,
    <<Open("input", A2("type", "text", "autocomplete", "username"))>>,
    <<Open("input", A3("type", "text", "aria-label", "User", "autocomplete", "username"))>>,
    <<Open("input", A1("type", "hidden"))>>,
    <<Open("video", A1("autoplay", Bare)), Close("video")>>,
    <<Open("video", A3("autoplay", Bare, "muted", Bare, "loop", Bare)), Close("video")>>,
    <<Open("video", A2("autoplay", Bare, "controls", Bare)), Close("video")>>,
    <<Open("audio", A2("autoplay", Bare, "controls", "controls")), Close("audio")>>,
    <<Open("a", A2("href", "/docs", "target", "_blank")), Text("Docs"), Close("a")>>,
    <<Open("a", A2("href", "/docs", "target", "_blank")), Text("Link (opens in new window)"),
      Close("a")>>,
    <<Open("a", A3("href", "/docs", "target", "_blank", "aria-label", "Docs (opens in new window)")),
      Text("Docs"), Close("a")>>,
    <<Open("a", A1("href", "/docs")), Text("Docs"), Close("a")>> }

ControlDocs == {DocOf(ls) : ls \in SeqsUpTo(ControlLines, MaxControls)}

InitControls == InitMarkup(ControlDocs)

SpecControls == InitControls /\ [][Next]_vars

\* The attribute a of token k of call c is present, and present with a
\* value that is not empty.
HasAttr(c, k, a) == a \in DOMAIN TokenOf(c, k).attrs
HasValue(c, k, a) == HasAttr(c, k, a) /\ TokenOf(c, k).attrs[a] \notin {"", Bare}

\* The radio inputs of call c named v.
RadiosNamed(c, v) ==
  {k \in TagsOf(c, {"input"}) :
     /\ HasAttr(c, k, "type") /\ TokenOf(c, k).attrs["type"] = "radio"
     /\ HasAttr(c, k, "name") /\ TokenOf(c, k).attrs["name"] = v}

\* The names that two or more radio inputs of call c share.
SharedRadioNames(c) ==
  {v \in {TokenOf(c, k).attrs["name"] : k \in {j \in TagsOf(c, {"input"}) : HasValue(c, j, "name")}} :
     Cardinality(RadiosNamed(c, v)) >= 2}

\* Element k of call c lies inside a fieldset.
InFieldset(c, k) ==
  LET in(T, par) == \E f \in 1..Len(T) :
                      T[f].t = "open" /\ Lower(T[f].name) = "fieldset" /\ isDescendant(par, k, f)
      of(T) == in(T, Parents(T))
  IN of(Flatten(calls[c].content.lines))

\* The radio-missing-fieldset violations of call c that name the group v.
FieldsetWarnings(c, v) ==
  {i \in 1..Len(calls[c].result) :
     /\ calls[c].result[i].ruleId = "radio-missing-fieldset"
     /\ calls[c].result[i].message[2] = v}

\* C16: a name shared by two or more radio inputs gives one
\* radio-missing-fieldset warning when the group is not inside a fieldset
\* and none when its inputs are wrapped in one; a name of a single radio
\* input gives none.
C16_RadioGrouping ==
  \A c \in MarkupReturned :
    /\ \A v \in SharedRadioNames(c) :
         Cardinality(FieldsetWarnings(c, v)) =
           IF \A k \in RadiosNamed(c, v) : InFieldset(c, k) THEN 0 ELSE 1
    /\ Count(c, "radio-missing-fieldset") =
         Cardinality(UNION {FieldsetWarnings(c, v) : v \in SharedRadioNames(c)})

\* The inputs of call c that the label check covers.
LabelledInputs(c) ==
  {k \in TagsOf(c, {"input"}) :
     ~(HasAttr(c, k, "type") /\ TokenOf(c, k).attrs["type"] \in {"hidden", "submit", "button"})}

\* Input k of call c has a resolvable label: an aria-label, an
\* aria-labelledby, or an id that the for attribute of a label names.
LabelResolvable(c, k) ==
  \/ HasValue(c, k, "aria-label")
  \/ HasValue(c, k, "aria-labelledby")
  \/ /\ HasValue(c, k, "id")
     /\ \E l \in TagsOf(c, {"label"}) :
          HasAttr(c, l, "for") /\ TokenOf(c, l).attrs["for"] = TokenOf(c, k).attrs["id"]

\* C17: an input that is not hidden, submit or button is reported as
\* missing a label unless its label is resolvable; an input with an id
\* that no label references is reported.
C17_InputLabelResolvable ==
  \A c \in MarkupReturned :
    Count(c, "form-input-missing-label") =
      Cardinality({k \in LabelledInputs(c) : ~LabelResolvable(c, k)})

\* C18: a video or audio element with autoplay gives an autoplay-media
\* violation exactly when it has neither a muted nor a controls attribute,
\* written with or without a value.
C18_AutoplayMutedOrControls ==
  \A c \in MarkupReturned :
    Count(c, "autoplay-media") =
      Cardinality({k \in TagsOf(c, {"video", "audio"}) :
                     /\ HasAttr(c, k, "autoplay")
                     /\ ~HasAttr(c, k, "muted")
                     /\ ~HasAttr(c, k, "controls")})

\* The strings of the documents that hold 'new window' or 'new tab'.
SaysNewWindow(s) ==
  s \in {"Link (opens in new window)", "Docs (opens in new window)", "Docs, new tab"}

\* The accessible name of link k of call c warns of a new window: its
\* aria-label does, or a text inside it does.
WarnsNewWindow(c, k) ==
  \/ HasAttr(c, k, "aria-label") /\ SaysNewWindow(TokenOf(c, k).attrs["aria-label"])
  \/ LET in(T, par) == \E j \in 1..Len(T) :
                         T[j].t = "text" /\ isDescendant(par, j, k) /\ SaysNewWindow(T[j].data)
         of(T) == in(T, Parents(T))
     IN of(Flatten(calls[c].content.lines))

\* C19: a link with target="_blank" gives a link-new-window-no-warning
\* violation exactly when its accessible name, text or aria-label, holds
\* no new-window warning.
C19_NewWindowWarning ==
  \A c \in MarkupReturned :
    Count(c, "link-new-window-no-warning") =
      Cardinality({k \in TagsOf(c, {"a"}) :
                     /\ HasAttr(c, k, "target") /\ TokenOf(c, k).attrs["target"] = "_blank"
                     /\ ~WarnsNewWindow(c, k)})


\* ---------------------------------------------------------------------
\* Markup on which the tree builder reports an error
\* ---------------------------------------------------------------------
MaxParseLines == 3

ParseLines ==
  { <<Open("html", A1("lang", "en")), El("title"), Text("Home"), Close("title")>>,
    <<El("html"), El("title"), Sp, Close("title")>>,
    <<El("main"), Open("img", A1("src", "a.png"))>>,
    <<Sp, El("marquee"), Text("Sale"), Close("marquee")>>,
    <<Sp, Open("p", A1("style", "outline: none")), El("h3"), Text("Part"), Close("h3")>>,
    <<Sp, Open("div", A1("id", "x")), Open("div", A1("id", "x"))>>,
    <<ParseError>> }

ParseDocs == {DocOf(ls) : ls \in SeqsUpTo(ParseLines, MaxParseLines)}

InitParse == InitMarkup(ParseDocs)

SpecParse == InitParse /\ [][Next]_vars

\* The findings analyzeHTML computes from the raw text, outside the
\* DomHandler callback.
DocumentLevel ==
  {"missing-lang", "title-empty", "missing-main-landmark", "marquee-element",
   "focus-outline-removed"}

\* The same text with nothing in it that the tree builder rejects.
Parseable(content) ==
  [kind |-> content.kind,
   lines |-> [i \in DOMAIN content.lines |->
                [k \in DOMAIN content.lines[i] |->
                   IF content.lines[i][k] = ParseError THEN Sp ELSE content.lines[i][k]]]]

ParseFailed ==
  {c \in Settled : /\ calls[c].route = "html"
                   /\ IsString(calls[c].content)
                   /\ parseError(Flatten(calls[c].content.lines))}

\* C20: when the tree builder reports a parse error the call still
\* returns, and what it returns is exactly the document-level findings
\* (missing-lang, title-empty, missing-main-landmark, marquee-element,
\* focus-outline-removed) that the same text yields when it parses, in the
\* same order: the tree-based checks are skipped and nothing else is lost.
C20_ParseErrorRecovered ==
  \A c \in ParseFailed :
    LET kept(alone) ==
          /\ calls[c].outcome = "returned"
          /\ calls[c].result =
               SelectSeq(alone.result, LAMBDA v : v.ruleId \in DocumentLevel)
    IN kept(RunAlone(calls[c].path, Parseable(calls[c].content)))

\* A text with a marquee, a removed focus outline and a heading that
\* skips levels failed to parse: the first two are reported, the heading
\* is not.
C20_Witness ==
  \E c \in ParseFailed :
    /\ Count(c, "marquee-element") = 1
    /\ Count(c, "focus-outline-removed") = 1
    /\ Count(c, "missing-lang") = 1
    /\ TagsOf(c, {"h3"}) # {}
    /\ Count(c, "heading-hierarchy") = 0


\* ---------------------------------------------------------------------
\* Markup with role attributes
\* ---------------------------------------------------------------------
MaxRoleLines == 3

RoleLines ==
  { <<Sp, Open("div", A1("role", "constructor")), Close("div")>>,
    <<Sp, Open("div", A1("role", "checkbox")), Close("div")>>,
    <<Sp, Open("nav", A1("role", "navigation")), Close("nav")>>,
    <<Sp, Open("span", A1("role", "toString")), Text("Save"), Close("span")>>,
    <<Sp, Open("img", A1("src", "a.png"))>>,
    <<Sp, El("button"), Close("button")>>,
    <<Sp, Open("p", A1("id", "x")), Open("p", A1("id", "x"))>> }

RoleDocs == {DocOf(ls) : ls \in SeqsUpTo(RoleLines, MaxRoleLines)}

InitRoles == InitMarkup(RoleDocs)

SpecRoles == InitRoles /\ [][Next]_vars

\* The same text with every role that makes the required-properties check
\* throw replaced by a role that does not.
WithoutThrow(content) ==
  [kind |-> content.kind,
   lines |-> [i \in DOMAIN content.lines |->
                [k \in DOMAIN content.lines[i] |->
                   LET tok == content.lines[i][k]
                   IN IF tok.t = "open" /\ requiredThrows(tok)
                      THEN [tok EXCEPT !.attrs["role"] = "none"]
                      ELSE tok]]]

CheckThrew ==
  {c \in Settled : /\ calls[c].route = "html"
                   /\ IsString(calls[c].content)
                   /\ traverseThrows(Flatten(calls[c].content.lines))}

\* C21: when one check throws on a node, the call still returns, and every
\* violation the other checks find (those of the same text with the
\* offending attribute value replaced) is in what it returns.
C21_ChecksIsolated ==
  \A c \in CheckThrew :
    LET kept(alone) ==
          /\ calls[c].outcome = "returned"
          /\ \A i \in 1..Len(alone.result) :
               \E j \in 1..Len(calls[c].result) : calls[c].result[j] = alone.result[i]
    IN kept(RunAlone(calls[c].path, WithoutThrow(calls[c].content)))


(***************************************************************************)
(* The setup script: scripts/setup-integration.js                          *)
(*                                                                         *)
(* A path is the sequence of its segments, so that path.join is \o.  The   *)
(* content of .gitignore is a sequence of pieces; the piece NLc is a line  *)
(* break, and no other piece holds one.                                    *)
(***************************************************************************)
NLc == "\n"

githubDir    == <<".github">>
workflowsDir == githubDir \o <<"workflows">>
a11yDir      == githubDir \o <<"a11y-reviewer">>
a11yCoreDir  == a11yDir \o <<"core">>
configDir    == <<".a11y">>
configPath   == configDir \o <<"config.json">>
workflowDst  == workflowsDir \o <<"accessibility-review.yml">>
gitignorePath == <<".gitignore">>

dirname(p) == SubSeq(p, 1, Len(p) - 1)

\* The ancestors of a path and the path: what mkdir(recursive) creates.
Ancestors(p) == {SubSeq(p, 1, n) : n \in 1..Len(p)}

filesToCopy ==
  << [src |-> <<"src", "mcp-server.js">>, dst |-> a11yDir \o <<"mcp-server.js">>],
     [src |-> <<"src", "core", "hybrid-analyzer.js">>,
      dst |-> a11yDir \o <<"core", "hybrid-analyzer.js">>],
     [src |-> <<"src", "core", "regex-analyzer.js">>,
      dst |-> a11yDir \o <<"core", "regex-analyzer.js">>],
     [src |-> <<"src", "core", "html-analyzer.js">>,
      dst |-> a11yDir \o <<"core", "html-analyzer.js">>],
     [src |-> <<"src", "core", "css-analyzer.js">>,
      dst |-> a11yDir \o <<"core", "css-analyzer.js">>],
     [src |-> <<"scripts", "analyze-pr-mcp.js">>, dst |-> a11yDir \o <<"analyze-pr-mcp.js">>],
     [src |-> <<"scripts", "mcp-client.js">>, dst |-> a11yDir \o <<"mcp-client.js">>] >>

\* The relative imports of the files of the tool repository whose text is
\* known, each as the segments after "./".
RelativeImports ==
  (<<"src", "mcp-server.js">> :> {<<"core", "hybrid-analyzer.js">>})
  @@ (<<"scripts", "analyze-pr-mcp.js">> :> {<<"core", "hybrid-analyzer.js">>})
  @@ (<<"src", "core", "hybrid-analyzer.js">> :>
        {<<"html-analyzer.js">>, <<"css-analyzer.js">>, <<"js-analyzer.js">>})

\* The files of the tool repository the script reads that are there in
\* every checkout, and those a checkout may lack.
ToolFiles ==
  {<<"package.json">>, <<"src", "mcp-server.js">>, <<"src", "core", "hybrid-analyzer.js">>,
   <<"src", "core", "regex-analyzer.js">>, <<"src", "core", "html-analyzer.js">>,
   <<"src", "core", "css-analyzer.js">>, <<"src", "core", "js-analyzer.js">>,
   <<"scripts", "analyze-pr-mcp.js">>}
OptionalToolFiles ==
  {<<"scripts", "mcp-client.js">>, <<"github-actions", "accessibility-review.yml">>}

\* Step 7: the entries, each as the pieces of its text.
entries ==
  << <<".github", "/", "a11y-reviewer", "/", "node_modules">>,
     <<".github", "/", "a11y-reviewer", "/", "a11y-results.json">>,
     <<".a11y", "/", "cache">>,
     <<"a11y-results.json">> >>

\* String.prototype.includes: `entry` occurs in `content` as a run of
\* consecutive pieces.
includes(content, entry) ==
  \E i \in 0..(Len(content) - Len(entry)) :
    \A k \in 1..Len(entry) : content[i + k] = entry[k]

RECURSIVE appendMissing(_, _)
\* entries.forEach(entry => { if (!content.includes(entry)) content += `\n${entry}` })
appendMissing(content, i) ==
  IF i > Len(entries) THEN content
  ELSE appendMissing(IF includes(content, entries[i]) THEN content
                     ELSE content \o <<NLc>> \o entries[i],
                     i + 1)

\* gitignoreContent.endsWith('\n') ? gitignoreContent : `${gitignoreContent}\n`
normalized(content) ==
  IF content # <<>> /\ content[Len(content)] = NLc THEN content ELSE content \o <<NLc>>

\* The lines a developer's .gitignore may hold before the script runs.
GitignoreLines ==
  { <<"node_modules">>,
    <<"dist", "/">>,
    <<"#", " ", "a11y-results.json">>,
    <<".a11y", "/", "cache", "/">>,
    <<".github", "/", "a11y-reviewer", "/", "a11y-results.json">> }

MaxGitignoreLines == 2

RECURSIVE joinLines(_)
\* lines.join('\n')
joinLines(lines) ==
  IF lines = <<>> THEN <<>>
  ELSE IF Len(lines) = 1 THEN lines[1]
  ELSE lines[1] \o <<NLc>> \o joinLines(Tail(lines))

\* The texts .gitignore may start with: lines joined by line breaks, with or
\* without a line break at the end.
GitignoreTexts ==
  LET joined == {joinLines(ls) : ls \in SeqsUpTo(GitignoreLines, MaxGitignoreLines)}
  IN joined \cup {t \o <<NLc>> : t \in joined \ {<<>>}}

\* The app repository before the script runs: with or without .gitignore,
\* with or without a config of its own.
InitSetup ==
  /\ calls = [c \in 1..MaxCalls |-> FreeCall]
  /\ engineFails = FALSE
  /\ lastLineNumber = 1
  /\ last = NoLast
  /\ batch = IdleBatch
  /\ pr = IdlePR
  /\ slots = {}
  /\ pool = {}
  /\ fix = Absent /\ lds = Absent /\ manager = Absent
  /\ \E tool \in SUBSET OptionalToolFiles :
     \E hasConfig \in BOOLEAN :
     \E ignore \in {[exists |-> FALSE, text |-> <<>>]}
                   \cup {[exists |-> TRUE, text |-> t] : t \in GitignoreTexts} :
       setup = [st |-> "dirs",
                tool |-> ToolFiles \cup tool,
                dirs |-> IF hasConfig THEN {configDir} ELSE {},
                files |-> IF hasConfig THEN {configPath} ELSE {},
                installed |-> [p \in {} |-> {}],
                gitignore |-> ignore,
                said |-> {}]

\* Step 1: the directory structure.
CreateDirectories ==
  /\ setup.st = "dirs"
  /\ setup' = [setup EXCEPT
                 !.st = "copy",
                 !.dirs = @ \cup UNION {Ancestors(d) :
                                          d \in {githubDir, workflowsDir, a11yDir, a11yCoreDir}}]
  /\ UNCHANGED <<server, fix, lds, manager>>

\* The imports a copied file has at its destination: those of its source;
\* in hybrid-analyzer.js an import of ../../scripts/color-contrast.js is
\* rewritten to ../color-contrast.js (the known text has no such import).
importsAt(src) == IF src \in DOMAIN RelativeImports THEN RelativeImports[src] ELSE {}

\* Step 2: filesToCopy.forEach(...): a source that is there is copied, one
\* that is not is skipped.
CopyFiles ==
  /\ setup.st = "copy"
  /\ LET copied == {i \in 1..Len(filesToCopy) : filesToCopy[i].src \in setup.tool}
     IN setup' = [setup EXCEPT
                    !.st = "package",
                    !.dirs = @ \cup UNION {Ancestors(dirname(filesToCopy[i].dst)) : i \in copied},
                    !.files = @ \cup {filesToCopy[i].dst : i \in copied},
                    !.installed = [p \in {filesToCopy[i].dst : i \in copied} |->
                                     importsAt(filesToCopy[CHOOSE i \in copied : filesToCopy[i].dst = p].src)]]
  /\ UNCHANGED <<server, fix, lds, manager>>

\* Step 3: package.json of the installation.
WritePackageJson ==
  /\ setup.st = "package"
  /\ setup' = [setup EXCEPT
                 !.st = "workflow",
                 !.files = IF <<"package.json">> \in setup.tool
                           THEN @ \cup {a11yDir \o <<"package.json">>} ELSE @]
  /\ UNCHANGED <<server, fix, lds, manager>>

\* Step 4: the workflow.
CopyWorkflow ==
  /\ setup.st = "workflow"
  /\ setup' = [setup EXCEPT
                 !.st = "config",
                 !.files = IF <<"github-actions", "accessibility-review.yml">> \in setup.tool
                           THEN @ \cup {workflowDst} ELSE @]
  /\ UNCHANGED <<server, fix, lds, manager>>

\* Step 5: the default configuration, unless the repository has one.
CreateConfig ==
  /\ setup.st = "config"
  /\ setup' = [setup EXCEPT
                 !.st = "install",
                 !.dirs = @ \cup {configDir},
                 !.files = @ \cup {configPath}]
  /\ UNCHANGED <<server, fix, lds, manager>>

\* Step 6: npm install in the installation directory; it works or it does
\* not, and the script goes on either way.
InstallDependencies(works) ==
  /\ setup.st = "install"
  /\ setup' = [setup EXCEPT
                 !.st = "gitignore",
                 !.dirs = IF works THEN @ \cup {a11yDir \o <<"node_modules">>} ELSE @]
  /\ UNCHANGED <<server, fix, lds, manager>>

\* Step 7: .gitignore is read if it is there, the entries it does not
\* include are appended, and it is written if anything was appended.
UpdateGitignore ==
  /\ setup.st = "gitignore"
  /\ LET written(before, after) ==
           IF after # before
           THEN [exists |-> TRUE, text |-> normalized(after)]
           ELSE setup.gitignore
         update(before) == written(before, appendMissing(before, 1))
     IN setup' = [setup EXCEPT
                    !.st = "summary",
                    !.gitignore = update(IF setup.gitignore.exists
                                         THEN setup.gitignore.text ELSE <<>>)]
  /\ UNCHANGED <<server, fix, lds, manager>>

\* The summary: the paths the closing instructions name.
Summary ==
  /\ setup.st = "summary"
  /\ setup' = [setup EXCEPT
                 !.st = "done",
                 !.said = {configPath, <<".github", "a11y-mcp", "analyze-pr-mcp.js">>}
                          \cup (IF a11yDir \o <<"node_modules">> \in setup.dirs
                                THEN {} ELSE {<<".github", "a11y-mcp">>})]
  /\ UNCHANGED <<server, fix, lds, manager>>

NextSetup ==
  \/ CreateDirectories
  \/ CopyFiles
  \/ WritePackageJson
  \/ CopyWorkflow
  \/ CreateConfig
  \/ \E works \in BOOLEAN : InstallDependencies(works)
  \/ UpdateGitignore
  \/ Summary

SpecSetup == InitSetup /\ [][NextSetup]_vars


\* The paths the README names for what the script generates.
readmeDir == <<".github", "a11y-mcp">>

\* C22: once the script has run, the MCP server and the PR analyzer are
\* under .github/a11y-mcp/, every path its closing instructions name is
\* there, the workflow (when the tool repository ships it) is at
\* .github/workflows/accessibility-review.yml and the config is at
\* .a11y/config.json.
C22_GeneratedLocations ==
  setup.st = "done" =>
    /\ readmeDir \o <<"mcp-server.js">> \in setup.files
    /\ readmeDir \o <<"analyze-pr-mcp.js">> \in setup.files
    /\ setup.said \subseteq setup.files \cup setup.dirs
    /\ (<<"github-actions", "accessibility-review.yml">> \in setup.tool
          => workflowDst \in setup.files)
    /\ configPath \in setup.files

\* C27: once the script has run, every relative import of a copied file
\* resolves, from the place the file was copied to, to a file that was
\* copied too.
C27_ClosedUnderImports ==
  setup.st = "done" =>
    \A p \in DOMAIN setup.installed :
      \A import \in setup.installed[p] : dirname(p) \o import \in setup.files

\* text.split('\n'): the lines of a text.
Lines(text) ==
  LET breaks == {i \in 1..Len(text) : text[i] = NLc} \cup {0, Len(text) + 1}
  IN {SubSeq(text, a + 1, b - 1) :
        <<a, b>> \in {ab \in breaks \X breaks :
                        /\ ab[1] < ab[2]
                        /\ \A c \in breaks : c <= ab[1] \/ c >= ab[2]}}

\* C28: once the script has run, whatever .gitignore held before,
\* .gitignore is there and each of the four entries is one of its lines.
C28_IgnoreEntriesPresent ==
  setup.st = "done" =>
    /\ setup.gitignore.exists
    /\ \A i \in 1..Len(entries) : entries[i] \in Lines(setup.gitignore.text)


(***************************************************************************)
(* The suggest_fix tool: handleSuggestFix of src/mcp-server.js             *)
(***************************************************************************)
\* handleSuggestFix: `fixes`, each list by its first string.
fixes ==
  ("img-missing-alt" :>
     <<"Add descriptive alt text", "For decorative images, use alt=\"\"",
       "Consider if the image conveys meaningful information">>)
  @@ ("div-button" :>
     <<"Replace with semantic button", "If div is required, add role, tabIndex, onKeyDown",
       "Ensure keyboard accessibility with Enter and Space key handlers">>)
  @@ ("button-missing-accessible-name" :>
     <<"Add text content", "Or add aria-label",
       "For icon buttons, always include accessible text or label">>)
  @@ ("input-missing-label" :>
     <<"Add label element", "Or use aria-label",
       "Labels help all users understand form fields">>)
  @@ ("aria-invalid-role" :>
     <<"Use a valid ARIA role from the ARIA specification", "Common roles",
       "See: https://www.w3.org/TR/wai-aria-1.2/#roles">>)
  @@ ("missing-keyboard-handler" :>
     <<"Add onKeyDown handler", "Or use semantic <button> element">>)
  @@ ("color-contrast-insufficient" :>
     <<"Use darker text or lighter background to achieve 4.5:1 contrast",
       "For large text (18pt+), minimum is 3:1", "Use online contrast checkers to verify">>)

\* The two-line fallback of handleSuggestFix.
genericSuggestions ==
  <<"Review WCAG 2.2 documentation for this violation",
    "Consult with accessibility team for specific guidance">>

\* fixes[violationId] || [...]: the list under that key; for a name every
\* object inherits (constructor, toString, ...) the inherited member, which
\* JSON.stringify leaves out of the answer; otherwise the fallback.
suggestionsFor(violationId) ==
  IF violationId \in DOMAIN fixes THEN fixes[violationId]
  ELSE IF violationId \in ObjectPrototype THEN <<>>
  ELSE genericSuggestions

\* The rule ids a violation returned by check_accessibility can carry: those
\* of the markup evaluator and those of the templating delegate.
EmittedRuleIds == DOMAIN violationToWCAG \cup DOMAIN linterRules

\* What clients ask suggest_fix about, and the code they send along.
AskedIds == EmittedRuleIds \cup DOMAIN fixes \cup {"constructor", "no-such-rule"}
AskedCode == {"", "<img src='logo.png' />", "<div onClick={go}>Go</div>"}

InitFix ==
  /\ calls = [c \in 1..MaxCalls |-> FreeCall]
  /\ engineFails = FALSE
  /\ lastLineNumber = 1
  /\ last = NoLast
  /\ batch = IdleBatch
  /\ pr = IdlePR
  /\ slots = {}
  /\ pool = {}
  /\ setup = Absent /\ lds = Absent /\ manager = Absent
  /\ fix = [st |-> "idle", violationId |-> "", code |-> "", suggestions |-> <<>>]

\* handleSuggestFix(args): the answer of the tool.
SuggestFix(violationId, code) ==
  /\ fix' = [st |-> "answered", violationId |-> violationId, code |-> code,
             suggestions |-> suggestionsFor(violationId)]
  /\ UNCHANGED <<server, setup, lds, manager>>

NextFix == \E violationId \in AskedIds : \E code \in AskedCode : SuggestFix(violationId, code)

SpecFix == InitFix /\ [][NextFix]_vars

\* C23: for every rule id a violation of check_accessibility can carry,
\* suggest_fix answers with remediation strings of that rule, not with the
\* generic two-line fallback.
C23_SuggestFixCoversRules ==
  fix.st = "answered" /\ fix.violationId \in EmittedRuleIds =>
    fix.suggestions # genericSuggestions


\* ---------------------------------------------------------------------
\* Markup for the line helper: tags at the start of a line, empty lines,
\* empty content, no title, tags the line tracker cannot locate
\* ---------------------------------------------------------------------
MaxLines == 3

LineSamples ==
  { <<El("marquee"), Text("Sale"), Close("marquee")>>,
    <<Sp, El("blink"), Close("blink")>>,
    <<>>,
    <<El("title"), Sp, Close("title")>>,
    <<Open("IMG", A1("src", "d.png"))>>,
    <<Sp, Open("p", A1("style", "outline: none")), Close("p")>>,
    <<El("h1"), Text("Part"), Close("h1"), El("h3"), Close("h3")>> }

LineDocs == {DocOf(ls) : ls \in SeqsUpTo(LineSamples, MaxLines)}

InitLines == InitMarkup(LineDocs)

SpecLines == InitLines /\ [][Next]_vars

\* content.length: the lines and the line breaks between them.
ContentLength(lines) == joinedLength(lines, Len(lines))

\* The offset at which line n starts.
LineStart(lines, n) == SumSeq([i \in 1..(n - 1) |-> LineLength(lines[i]) + 1])

\* The 1-based number of the line that holds the character at `index`
\* (a line break belongs to the line it ends).
LineContaining(lines, index) ==
  CHOOSE n \in 1..Len(lines) :
    /\ LineStart(lines, n) <= index
    /\ n < Len(lines) => index < LineStart(lines, n + 1)

\* C24: for every offset of the content of an analysed document,
\* getLineNumber returns the number of the line holding that character,
\* also when the character is the first of a line after the first.
C24_GetLineNumber ==
  \A c \in MarkupReturned :
    LET right(lines) ==
          \A index \in 0..(ContentLength(lines) - 1) :
            getLineNumber(lines, index) = LineContaining(lines, index)
    IN right(calls[c].content.lines)

cacheTTL == 2
MaxNow == 8

\* getMockComponents(): the components the Storybook mock knows.
mockComponents == {"Button", "Input", "Modal", "Select"}

\* The component names callers ask for.
ComponentNames == {"Button", "Input", "Card"}

NotCached == [has |-> FALSE, storedAt |-> 0]
NotServed == [name |-> "", found |-> FALSE, fromCache |-> FALSE, age |-> 0]

\* new LDSIntegration(storybookUrl, cacheTTL)
InitLDS ==
  /\ calls = [c \in 1..MaxCalls |-> FreeCall]
  /\ engineFails = FALSE
  /\ lastLineNumber = 1
  /\ last = NoLast
  /\ batch = IdleBatch
  /\ pr = IdlePR
  /\ slots = {}
  /\ pool = {}
  /\ fix = Absent /\ setup = Absent /\ manager = Absent
  /\ lds = [st |-> "ready",
            now |-> cacheTTL + 1,
            componentCache |-> [n \in ComponentNames |-> NotCached],
            lastCacheUpdate |-> 0,
            served |-> NotServed]

\* (Date.now() - this.lastCacheUpdate) < this.cacheTTL
isCacheValid == (lds.now - lds.lastCacheUpdate) < cacheTTL

\* getComponentSpecs(componentName): a valid cache that has the name answers;
\* otherwise the component is fetched and, if there is one, stored, and
\* lastCacheUpdate is set to the time of the store.  `served` records the
\* answer and the age of the cache entry it came from.
GetComponentSpecs(componentName) ==
  /\ lds.st = "ready"
  /\ IF isCacheValid /\ lds.componentCache[componentName].has
     THEN lds' = [lds EXCEPT
                    !.served = [name |-> componentName, found |-> TRUE, fromCache |-> TRUE,
                                age |-> lds.now - lds.componentCache[componentName].storedAt]]
     ELSE IF componentName \in mockComponents
     THEN lds' = [lds EXCEPT
                    !.componentCache[componentName] = [has |-> TRUE, storedAt |-> lds.now],
                    !.lastCacheUpdate = lds.now,
                    !.served = [name |-> componentName, found |-> TRUE, fromCache |-> FALSE,
                                age |-> 0]]
     ELSE lds' = [lds EXCEPT
                    !.served = [name |-> componentName, found |-> FALSE, fromCache |-> FALSE,
                                age |-> 0]]
  /\ UNCHANGED <<server, fix, setup, manager>>

\* clearCache()
ClearCache ==
  /\ lds.st = "ready"
  /\ lds' = [lds EXCEPT !.componentCache = [n \in ComponentNames |-> NotCached],
                        !.lastCacheUpdate = 0]
  /\ UNCHANGED <<server, fix, setup, manager>>

\* Time passes.
Tick ==
  /\ lds.st = "ready"
  /\ lds.now < MaxNow
  /\ lds' = [lds EXCEPT !.now = @ + 1]
  /\ UNCHANGED <<server, fix, setup, manager>>

NextLDS ==
  \/ \E componentName \in ComponentNames : GetComponentSpecs(componentName)
  \/ ClearCache
  \/ Tick

SpecLDS == InitLDS /\ [][NextLDS]_vars

\* C26: an answer that comes from the cache comes from an entry stored
\* less than cacheTTL ago.
C26_NoStaleEntryServed ==
  lds.st = "ready" /\ lds.served.fromCache => lds.served.age < cacheTTL


(***************************************************************************)
(* ConfigManager: src/config/config-manager.ts                             *)
(*                                                                         *)
(* A parsed config file is a record: `json` tells whether the text is JSON *)
(* at all and what value it is; each nested property is there or not.  The *)
(* setting of a rule is abstracted to its severity.  loadConfig declares   *)
(* `const stats` twice in its try block; they are read as two variables,   *)
(* the stat of the directory and the stat of the file.                     *)
(***************************************************************************)
DEFAULT_CONFIG ==
  [wcagLevel |-> "AA",
   ldsEnforcement |->
     ("enabled" :> "true") @@ ("storybookUrl" :> "https://storybook.lilly.internal")
     @@ ("requireApprovedComponents" :> "true") @@ ("allowedExceptions" :> "src/legacy/**")
     @@ ("cacheComponents" :> "true") @@ ("cacheTTL" :> "3600"),
   rules |->
     ("aria-required" :> "error") @@ ("keyboard-nav" :> "error")
     @@ ("semantic-html" :> "error") @@ ("alt-text" :> "error")
     @@ ("lds-components" :> "warning") @@ ("heading-hierarchy" :> "warning")
     @@ ("form-labels" :> "error") @@ ("skip-links" :> "warning")
     @@ ("focus-visible" :> "warning"),
   failureThresholds |-> ("error" :> 0) @@ ("warning" :> 10),
   ignore |-> <<"src/**/*.test.tsx", "src/**/*.stories.tsx", "node_modules/**",
                "dist/**", "build/**">>]

\* A property of the parsed file: whether it is there, its value, and
\* whether the value can be spread into an array.
NoProperty == [has |-> FALSE, iterable |-> TRUE, val |-> <<>>]
Property(val) == [has |-> TRUE, iterable |-> TRUE, val |-> val]
NotIterable == [has |-> TRUE, iterable |-> FALSE, val |-> <<>>]

\* A config file that parses to an object with these properties.
Json(wcagLevel, ldsEnforcement, rules, failureThresholds, ignore) ==
  [json |-> "object", wcagLevel |-> wcagLevel, ldsEnforcement |-> ldsEnforcement,
   rules |-> rules, failureThresholds |-> failureThresholds, ignore |-> ignore]

EmptyObject == Json(NoProperty, NoProperty, NoProperty, NoProperty, NoProperty)

\* JSON.stringify(DEFAULT_CONFIG): what saveConfig(DEFAULT_CONFIG) writes.
DefaultFile ==
  Json(Property(DEFAULT_CONFIG.wcagLevel), Property(DEFAULT_CONFIG.ldsEnforcement),
       Property(DEFAULT_CONFIG.rules), Property(DEFAULT_CONFIG.failureThresholds),
       Property(DEFAULT_CONFIG.ignore))

\* The texts a developer may put in .a11y/config.json: not JSON; the JSON
\* value null; an empty object; partial objects; an object whose `ignore` is
\* a number.
InvalidJson == [EmptyObject EXCEPT !.json = "invalid"]
NullJson    == [EmptyObject EXCEPT !.json = "null"]
PartialRules ==
  [EmptyObject EXCEPT
     !.rules = Property(("alt-text" :> "warning") @@ ("custom-rule" :> "error")),
     !.failureThresholds = Property("warning" :> 5)]
PartialIgnore ==
  [EmptyObject EXCEPT
     !.wcagLevel = Property("AAA"),
     !.ldsEnforcement = Property("enabled" :> "false"),
     !.ignore = Property(<<"vendor/**">>)]
IgnoreNotIterable == [EmptyObject EXCEPT !.ignore = NotIterable]

FileTexts == {InvalidJson, NullJson, EmptyObject, PartialRules, PartialIgnore, IgnoreNotIterable}

\* JSON.parse(content) throws.
parseThrows(text) == text.json = "invalid"

\* mergeWithDefaults throws: config.ldsEnforcement of null, or the spread of
\* an `ignore` that is not iterable.
mergeThrows(config) ==
  \/ config.json = "null"
  \/ config.ignore.has /\ ~config.ignore.iterable

\* A faulty mergeWithDefaults that takes the nested objects of the file as
\* they are; C29_ConfigHasDefaults must not hold of it.
mergeShallow(config, defaults) ==
  [wcagLevel |-> IF config.wcagLevel.has THEN config.wcagLevel.val ELSE defaults.wcagLevel,
   ldsEnforcement |-> IF config.ldsEnforcement.has THEN config.ldsEnforcement.val
                      ELSE defaults.ldsEnforcement,
   rules |-> IF config.rules.has THEN config.rules.val ELSE defaults.rules,
   failureThresholds |-> IF config.failureThresholds.has THEN config.failureThresholds.val
                         ELSE defaults.failureThresholds,
   ignore |-> IF config.ignore.has THEN config.ignore.val ELSE defaults.ignore]

\* mergeWithDefaults(config, defaults) when it does not throw: the top-level
\* properties of the file over the defaults, and each nested object merged
\* key by key; `ignore` is the defaults followed by the file's patterns.
mergeWithDefaults(config, defaults) ==
  [wcagLevel |-> IF config.wcagLevel.has THEN config.wcagLevel.val ELSE defaults.wcagLevel,
   ldsEnforcement |-> IF config.ldsEnforcement.has
                      THEN config.ldsEnforcement.val @@ defaults.ldsEnforcement
                      ELSE defaults.ldsEnforcement,
   rules |-> IF config.rules.has THEN config.rules.val @@ defaults.rules ELSE defaults.rules,
   failureThresholds |-> IF config.failureThresholds.has
                         THEN config.failureThresholds.val @@ defaults.failureThresholds
                         ELSE defaults.failureThresholds,
   ignore |-> IF config.ignore.has THEN defaults.ignore \o config.ignore.val
              ELSE defaults.ignore]

MaxLoads == 2
MaxMtime == 3
Watchers == {"w1", "w2"}

NoFile == [exists |-> FALSE, mtimeMs |-> 0, text |-> EmptyObject]
NoLoad == [pc |-> "idle", mtimeMs |-> 0]
NotGiven == [given |-> FALSE, config |-> DEFAULT_CONFIG]

\* new ConfigManager(configDir): the fields of the manager; the directory
\* and the file as the developer left them; nobody subscribed.
InitManager ==
  /\ calls = [c \in 1..MaxCalls |-> FreeCall]
  /\ engineFails = FALSE
  /\ lastLineNumber = 1
  /\ last = NoLast
  /\ batch = IdleBatch
  /\ pr = IdlePR
  /\ slots = {}
  /\ pool = {}
  /\ fix = Absent /\ setup = Absent /\ lds = Absent
  /\ \E dir \in BOOLEAN :
     \E file \in {NoFile} \cup {[exists |-> TRUE, mtimeMs |-> 1, text |-> t] : t \in FileTexts} :
       /\ file.exists => dir
       /\ manager = [st |-> "ready",
                     config |-> DEFAULT_CONFIG,
                     lastModified |-> 0,
                     watchers |-> {},
                     seen |-> [w \in Watchers |-> NotGiven],
                     dir |-> dir,
                     file |-> file,
                     clock |-> 1,
                     loads |-> [l \in 1..MaxLoads |-> NoLoad],
                     returned |-> 0]

\* A developer, or an editor, writes the config file; its mtime is new.
WriteFile(text) ==
  /\ manager.st = "ready"
  /\ manager.clock < MaxMtime
  /\ manager' = [manager EXCEPT
                   !.dir = TRUE,
                   !.clock = @ + 1,
                   !.file = [exists |-> TRUE, mtimeMs |-> manager.clock + 1, text |-> text]]
  /\ UNCHANGED <<server, fix, setup, lds>>

\* The config file is removed.
DeleteFile ==
  /\ manager.st = "ready"
  /\ manager.file.exists
  /\ manager' = [manager EXCEPT !.file = NoFile]
  /\ UNCHANGED <<server, fix, setup, lds>>

\* subscribe(watcher)
Subscribe(w) ==
  /\ manager.st = "ready"
  /\ w \notin manager.watchers
  /\ manager' = [manager EXCEPT !.watchers = @ \cup {w}]
  /\ UNCHANGED <<server, fix, setup, lds>>

\* The function subscribe returned is called.
Unsubscribe(w) ==
  /\ manager.st = "ready"
  /\ w \in manager.watchers
  /\ manager' = [manager EXCEPT !.watchers = @ \ {w}, !.seen[w] = NotGiven]
  /\ UNCHANGED <<server, fix, setup, lds>>

\* loadConfig() is called, by initialize(), by the 'change' event of the
\* watcher or by a client: it runs up to `await fs.stat(configDir)`.
LoadConfig(l) ==
  /\ manager.st = "ready"
  /\ manager.loads[l].pc = "idle"
  /\ manager' = [manager EXCEPT !.loads[l].pc = "statDir"]
  /\ UNCHANGED <<server, fix, setup, lds>>

\* saveConfig(DEFAULT_CONFIG) and `this.config = DEFAULT_CONFIG; return`.
savedDefault(l) ==
  [manager EXCEPT
     !.dir = TRUE,
     !.clock = @ + 1,
     !.file = [exists |-> TRUE, mtimeMs |-> manager.clock + 1, text |-> DefaultFile],
     !.config = DEFAULT_CONFIG,
     !.loads[l] = NoLoad,
     !.returned = l]

\* The stat of the directory resolves: without the directory the default
\* config is written and taken; with it the file is looked at next.
StatDir(l) ==
  /\ manager.loads[l].pc = "statDir"
  /\ IF ~manager.dir
     THEN manager.clock < MaxMtime /\ manager' = savedDefault(l)
     ELSE manager' = [manager EXCEPT !.loads[l].pc = "statFile"]
  /\ UNCHANGED <<server, fix, setup, lds>>

\* The stat of the file resolves: without the file the default config is
\* written and taken; with an mtime equal to lastModified the call returns;
\* otherwise lastModified is set and the file is read next.
StatFile(l) ==
  /\ manager.loads[l].pc = "statFile"
  /\ IF ~manager.file.exists
     THEN manager.clock < MaxMtime /\ manager' = savedDefault(l)
     ELSE IF manager.file.mtimeMs = manager.lastModified
     THEN manager' = [manager EXCEPT !.loads[l] = NoLoad, !.returned = l]
     ELSE manager' = [manager EXCEPT !.lastModified = manager.file.mtimeMs,
                                     !.loads[l].pc = "read"]
  /\ UNCHANGED <<server, fix, setup, lds>>

\* readFile resolves or rejects: the text is parsed and merged and every
\* watcher is called with getConfig(); if the file is gone, is not JSON or
\* the merge throws, the catch block takes the default config and calls
\* nobody.
ReadFile(l) ==
  /\ manager.loads[l].pc = "read"
  /\ IF \/ ~manager.file.exists
        \/ parseThrows(manager.file.text)
        \/ mergeThrows(manager.file.text)
     THEN manager' = [manager EXCEPT !.config = DEFAULT_CONFIG,
                                     !.loads[l] = NoLoad, !.returned = l]
     ELSE LET loaded(config) ==
                [manager EXCEPT
                   !.config = config,
                   !.seen = [w \in Watchers |->
                               IF w \in manager.watchers
                               THEN [given |-> TRUE, config |-> config]
                               ELSE manager.seen[w]],
                   !.loads[l] = NoLoad,
                   !.returned = l]
          IN manager' = loaded(mergeWithDefaults(manager.file.text, DEFAULT_CONFIG))
  /\ UNCHANGED <<server, fix, setup, lds>>

NextManager ==
  \/ \E text \in FileTexts : WriteFile(text)
  \/ DeleteFile
  \/ \E w \in Watchers : Subscribe(w)
  \/ \E w \in Watchers : Unsubscribe(w)
  \/ \E l \in 1..MaxLoads : LoadConfig(l)
  \/ \E l \in 1..MaxLoads : StatDir(l)
  \/ \E l \in 1..MaxLoads : StatFile(l)
  \/ \E l \in 1..MaxLoads : ReadFile(l)

SpecManager == InitManager /\ [][NextManager]_vars


\* The config holds every default rule id, both failure thresholds, every
\* default ignore pattern and every default ldsEnforcement key.
HasDefaults(config) ==
  /\ DOMAIN DEFAULT_CONFIG.rules \subseteq DOMAIN config.rules
  /\ {"error", "warning"} \subseteq DOMAIN config.failureThresholds
  /\ \A i \in 1..Len(DEFAULT_CONFIG.ignore) :
       \E j \in 1..Len(config.ignore) : config.ignore[j] = DEFAULT_CONFIG.ignore[i]
  /\ DOMAIN DEFAULT_CONFIG.ldsEnforcement \subseteq DOMAIN config.ldsEnforcement

\* `merged` is the object `file` laid over the object `defaults`: the keys
\* of both, with the value of the file where the file has the key.
LaidOver(merged, file, defaults) ==
  /\ DOMAIN merged = DOMAIN defaults \cup (IF file.has THEN DOMAIN file.val ELSE {})
  /\ \A k \in DOMAIN merged :
       merged[k] = IF file.has /\ k \in DOMAIN file.val THEN file.val[k] ELSE defaults[k]

\* The config is the parsed file `text` merged over the defaults.
IsFileOverDefaults(config, text) ==
  /\ text.json = "object"
  /\ text.ignore.has => text.ignore.iterable
  /\ config.wcagLevel =
       IF text.wcagLevel.has THEN text.wcagLevel.val ELSE DEFAULT_CONFIG.wcagLevel
  /\ LaidOver(config.rules, text.rules, DEFAULT_CONFIG.rules)
  /\ LaidOver(config.failureThresholds, text.failureThresholds,
              DEFAULT_CONFIG.failureThresholds)
  /\ LaidOver(config.ldsEnforcement, text.ldsEnforcement, DEFAULT_CONFIG.ldsEnforcement)
  /\ config.ignore =
       DEFAULT_CONFIG.ignore \o (IF text.ignore.has THEN text.ignore.val ELSE <<>>)

\* C29: once loadConfig has returned, whatever the config file was (no
\* directory, no file, unchanged mtime, JSON, partial JSON, not JSON), the
\* config of the manager is the defaults or a file text merged over the
\* defaults, and holds every default rule id, both failure thresholds,
\* every default ignore pattern and every default ldsEnforcement key.
C29_ConfigHasDefaults ==
  manager.st = "ready" /\ manager.returned # 0 =>
    /\ \/ manager.config = DEFAULT_CONFIG
       \/ \E text \in FileTexts \cup {DefaultFile} : IsFileOverDefaults(manager.config, text)
    /\ HasDefaults(manager.config)

\* loadConfig returned after it read a partial file: a default rule is
\* overridden, a rule of the file is added, the threshold the file does
\* not give is the default.
C29_Witness ==
  /\ manager.st = "ready" /\ manager.returned # 0
  /\ "custom-rule" \in DOMAIN manager.config.rules
  /\ manager.config.rules["alt-text"] = "warning"
  /\ manager.config.rules["skip-links"] = "warning"
  /\ manager.config.failureThresholds["error"] = 0
  /\ manager.config.failureThresholds["warning"] = 5

\* C30: whenever loadConfig changes the config of the manager, every
\* watcher subscribed at that moment is called with the new config.
C30_SubscribersNotified ==
  [][manager.st = "ready" /\ manager'.config # manager.config =>
       \A w \in manager'.watchers :
         manager'.seen[w] = [given |-> TRUE, config |-> manager'.config]]_vars

====
